---- MODULE Spec2Model ----
(***************************************************************************)
(* pydantic-marshmallow: the load pipeline of PydanticSchema               *)
(* (src/src/pydantic_marshmallow/bridge.py, errors.py).                    *)
(*                                                                         *)
(* A mapping (a Python dict) is a function whose DOMAIN is its key set.    *)
(* All keys, values and messages are strings.  A Python list of messages   *)
(* is a sequence.  An optional value is a sequence of length 0 or 1.       *)
(*                                                                         *)
(* The bound model is the test suite's shape of model: a required field,   *)
(* a required field with a wire alias (populate_by_name=True), a field     *)
(* with a static default, a computed field and a cross-field               *)
(* model validator.                                                        *)
(***************************************************************************)
EXTENDS Integers, Sequences, FiniteSets, TLC

VARIABLES
    schema_cls,        \* name of the schema class the instance was built from
    pc,                \* position inside _do_load
    data,              \* the input passed to load()
    partial,           \* resolved partial setting
    unknown_setting,   \* resolved unknown-field policy
    return_instance,   \* load(..., return_instance=)
    processed_data,    \* output of the pre_load hooks / unknown-field step
    engine_calls,      \* the mappings handed to model_class.model_validate
    validated_data,    \* validated mapping (steps 3..6)
    pydantic_instance, \* <<instance>> kept from full validation, or <<>>
    error_store,       \* ErrorStore.errors of steps 4..5
    result,            \* <<value returned by load>>, or <<>>
    raised,            \* <<exception raised by load>>, or <<>>
    call_order,        \* the pipeline stages in the order they ran
    validator_calls,   \* how often each registered validator was invoked
    batch,             \* the input of load(..., many=True)
    batch_index,       \* position of the list comprehension over the batch
    batch_results,     \* the results of the items loaded so far
    _schema_class_cache,  \* bridge._schema_class_cache: cache key -> class
    _processing_models,   \* type_mapping._processing_models
    stack,             \* the from_model calls in progress, innermost last
    classes,           \* every schema class created so far, in order
    requests,          \* the completed top-level from_model calls
    thread_stack,      \* per thread: its from_model calls in progress, innermost last
    dump_pc,           \* position inside dump / _dump_single
    dump_obj,          \* <<model instance passed to dump>>, or <<>>
    dump_options,      \* include_computed, exclude_unset, exclude_defaults, exclude_none
    dump_hook,         \* the post_dump hook of the schema class
    field_filter,      \* the schema's field filter: only (or fields) and exclude
    pre_dump_hook,     \* the pre_dump hook of the schema class
    pre_dump_input,    \* <<object the pre_dump hook received>>, or <<>>
    dump_dict,         \* _dump_single: obj after obj.model_dump(by_alias=False)
    fields_to_exclude, \* _dump_single: fields_to_exclude
    computed_values,   \* _dump_single: computed_values
    dump_result,       \* _dump_single: result
    hook_output,       \* <<mapping the last post_dump hook returned>>, or <<>>
    dump_order,        \* the dump stages in the order they ran
    _partial,          \* self._partial: the partial given at construction
    _unknown_override, \* self._unknown_override: <<policy>> given at construction, or <<>>
    self_many,         \* self.many: the many given at construction
    meta_unknown,      \* Meta.unknown of the schema class, RAISE when not declared
    load_args,         \* <<the many, partial and unknown passed to load()>>, or <<>>
    _context,          \* self._context: the validation context of the instance
    type_hint,         \* <<type annotation handed to the type mapper>>, or <<>>
    ma_field,          \* <<Marshmallow field the type mapper returned>>, or <<>>
    field_value,       \* <<value a model instance holds in the field>>, or <<>>
    dumped_value,      \* <<what dump emits for the field>>, or <<>>
    loaded_value,      \* <<what load makes of the dumped value>>, or <<>>
    engine_error,      \* <<engine error handed to format_pydantic_error>>, or <<>>
    formatted,         \* <<message format_pydantic_error returned>>, or <<>>
    order_data,        \* <<mapping loaded into the Order model>>, or <<>>
    full_messages,     \* <<messages of the non-partial load of order_data>>, or <<>>
    partial_messages   \* <<messages of the partial load of order_data>>, or <<>>

load_vars == <<schema_cls, pc, data, partial, unknown_setting, return_instance,
               processed_data, engine_calls, validated_data, pydantic_instance,
               error_store, result, raised, call_order, validator_calls>>

many_vars == <<batch, batch_index, batch_results>>

factory_vars == <<_schema_class_cache, _processing_models, stack, classes,
                  requests, thread_stack>>

dump_vars == <<dump_pc, dump_obj, dump_options, dump_hook, field_filter, pre_dump_hook,
               pre_dump_input, dump_dict, fields_to_exclude,
               computed_values, dump_result, hook_output, dump_order>>

\* the state outside load
config_vars == <<_partial, _unknown_override, self_many, meta_unknown, load_args,
                 _context>>

types_vars == <<type_hint, ma_field, field_value, dumped_value, loaded_value>>

errors_vars == <<engine_error, formatted, order_data, full_messages,
                 partial_messages>>

aux_vars == <<factory_vars, dump_vars, config_vars, types_vars, errors_vars>>

\* the state a single-item load leaves alone
rest_vars == <<many_vars, aux_vars>>

vars == <<load_vars, rest_vars>>

\* ------------------------------------------------------------------ bounds

\* Largest number of keys in an input mapping.
MaxKeys == 3

\* the threads of the host that call the factory
Threads == {"t1", "t2"}

\* ------------------------------------------------------------ dict helpers

EmptyDict == <<>>

Restrict(d, S) == [k \in (DOMAIN d) \cap S |-> d[k]]

\* dict.update / {**d, **e}: e wins
Update(d, e) == [k \in (DOMAIN d) \cup (DOMAIN e) |->
                    IF k \in DOMAIN e THEN e[k] ELSE d[k]]

SeqToSet(s) == {s[i] : i \in DOMAIN s}

\* marshmallow constants
RAISE == "raise"
EXCLUDE == "exclude"
INCLUDE == "include"
SCHEMA == "_schema"

\* ------------------------------------------------- the bound model (engine A)

\* model_class.model_fields, in declaration order
FieldOrder == <<"name", "user_id", "age">>
ModelFields == SeqToSet(FieldOrder)

\* field_info.alias ("" when the field has none)
AliasOf(f) == IF f = "user_id" THEN "userId" ELSE ""

\* model_config: populate_by_name
PopulateByName == TRUE

\* field_info.default is not PydanticUndefined
HasDefault(f) == f = "age"
DefaultOf(f) == "v0"

\* field_info.default_factory is not None
HasDefaultFactory(f) == FALSE
FactoryOf(f) == "v0"

\* model_class.model_computed_fields
ComputedFields == {"full_name"}

\* the computed property full_name, derived from the instance's fields
ComputedValue(fields, c) == IF fields["name"] = "v1" THEN "F1" ELSE "F2"

\* json_schema_extra["error_messages"] of a field: none declared
ErrorMessages(f) == EmptyDict

\* type coercion of one value: "raw" is accepted and coerced to "v1"
Coerce(v) == IF v = "raw" THEN "v1" ELSE v

\* the keys under which the engine looks a field up, in order
LookupKeys(f) ==
    IF AliasOf(f) = "" THEN <<f>>
    ELSE IF PopulateByName THEN <<AliasOf(f), f>> ELSE <<AliasOf(f)>>

\* the key of d the engine reads field f from, as <<key>>, or <<>>
FoundKey(f, d) ==
    LET ks == LookupKeys(f)
        hit == {i \in DOMAIN ks : ks[i] \in DOMAIN d}
    IN  IF hit = {} THEN <<>>
        ELSE <<ks[CHOOSE i \in hit : \A j \in hit : i <= j]>>

\* the engine's error list for one field
FieldErrors(f, d) ==
    LET fk == FoundKey(f, d)
    IN  IF fk = <<>>
        THEN IF HasDefault(f) \/ HasDefaultFactory(f) THEN <<>>
             ELSE << [loc |-> <<LookupKeys(f)[1]>>, type |-> "missing",
                      msg |-> "Field required"] >>
        ELSE IF d[fk[1]] = "bad"
             THEN << [loc |-> fk, type |-> "invalid",
                      msg |-> "Input should be a valid value"] >>
             ELSE <<>>

\* the value the instance holds for field f
FieldValue(f, d) ==
    LET fk == FoundKey(f, d)
    IN  IF fk = <<>> THEN (IF HasDefault(f) THEN DefaultOf(f) ELSE FactoryOf(f))
        ELSE Coerce(d[fk[1]])

\* the cross-field (mode="after") model validator: name and age must differ
ModelValidatorFails(fields) == fields["name"] = fields["age"]

RECURSIVE FieldErrorList(_, _)
FieldErrorList(i, d) ==
    IF i > Len(FieldOrder) THEN <<>>
    ELSE FieldErrors(FieldOrder[i], d) \o FieldErrorList(i + 1, d)

\* the instance model_validate builds when no field fails
InstanceOf(d) ==
    [fields |-> [f \in ModelFields |-> FieldValue(f, d)],
     fields_set |-> {f \in ModelFields : FoundKey(f, d) # <<>>}]

\* PydanticValidationError.errors() of model_validate(d); <<>> on success
EngineErrors(d) ==
    LET fe == FieldErrorList(1, d)
    IN  IF fe # <<>> THEN fe
        ELSE IF ModelValidatorFails(InstanceOf(d).fields)
             THEN << [loc |-> <<>>, type |-> "value_error",
                      msg |-> "Value error, name and age must differ"] >>
             ELSE <<>>

\* instance.model_dump(by_alias=False): declared and computed fields
ModelDump(inst) ==
    [k \in ModelFields \cup ComputedFields |->
        IF k \in ModelFields THEN inst.fields[k]
        ELSE ComputedValue(inst.fields, k)]

\* ------------------------------------------------------------ errors.py

BridgeError(messages, orig, valid) ==
    [cls |-> "BridgeValidationError", messages |-> messages,
     data |-> <<orig>>, valid_data |-> <<valid>>]

\* marshmallow.exceptions.ValidationError(messages)
MarshmallowError(messages) ==
    [cls |-> "ValidationError", messages |-> messages,
     data |-> <<>>, valid_data |-> <<>>]

RECURSIVE JoinPath(_)
JoinPath(loc) ==
    IF Len(loc) = 1 THEN loc[1] ELSE loc[1] \o "." \o JoinPath(Tail(loc))

build_error_path(loc) == IF Len(loc) = 1 THEN loc[1] ELSE JoinPath(loc)

\* the Product model of the error-message tests: name and quantity carry a
\* message table, sku (wire alias "SKU") and the nested address too; zip is
\* a field of the nested Address model with a table of its own
ProductFields == {"name", "quantity", "sku", "address"}
AddressFields == {"zip", "city"}

\* model_class.model_fields of a model
FieldsOf(model) ==
    CASE model = "Product" -> ProductFields
      [] model = "Address" -> AddressFields
      [] OTHER             -> ModelFields

\* json_schema_extra["error_messages"] of a field of a model
ErrorMessagesOf(model, f) ==
    CASE model = "Product" /\ f = "name" ->
            ("string_too_short" :> "Product name must be at least 2 characters")
            @@ ("default" :> "Invalid product name")
      [] model = "Product" /\ f = "quantity" ->
            ("greater_than_equal" :> "Quantity must be at least 1")
      [] model = "Product" /\ f = "sku" -> ("default" :> "Invalid SKU")
      [] model = "Product" /\ f = "address" -> ("default" :> "Invalid address")
      [] model = "Address" /\ f = "zip" -> ("string_too_short" :> "ZIP too short")
      [] model \notin {"Product", "Address"} -> ErrorMessages(f)
      [] OTHER -> EmptyDict

\* the lookup in the table: the entry for the error's type, else "default",
\* else the engine's message
CustomMessage(custom, error) ==
    IF error.type \in DOMAIN custom THEN custom[error.type]
    ELSE IF "default" \in DOMAIN custom THEN custom["default"]
    ELSE error.msg

\* format_pydantic_error(error, model_class)
format_pydantic_error_of(error, model_class) ==
    IF error.loc # <<>> /\ error.loc[1] \in FieldsOf(model_class)
    THEN CustomMessage(ErrorMessagesOf(model_class, error.loc[1]), error)
    ELSE error.msg

\* format_pydantic_error(error, self._model_class) for the bound model
format_pydantic_error(error) == format_pydantic_error_of(error, "User")

\* errors[key].append(msg), creating the list when the key is new
AppendMessage(errors, key, msg) ==
    IF key \in DOMAIN errors
    THEN [errors EXCEPT ![key] = Append(@, msg)]
    ELSE Update(errors, key :> <<msg>>)

\* the loop over pydantic_error.errors(): acc = [errors, failed_fields]
RECURSIVE ConvertLoop(_, _)
ConvertLoop(errs, acc) ==
    IF errs = <<>> THEN acc
    ELSE LET error == Head(errs)
             msg == format_pydantic_error(error)
         IN  ConvertLoop(Tail(errs),
                IF error.loc # <<>>
                THEN [errors |-> AppendMessage(acc.errors,
                                     build_error_path(error.loc), msg),
                      failed_fields |-> acc.failed_fields \cup {error.loc[1]}]
                ELSE [errors |-> AppendMessage(acc.errors, SCHEMA, msg),
                      failed_fields |-> acc.failed_fields])

\* python truthiness of a mapping in `original_data or data`
OrData(original_data, d) ==
    IF original_data # EmptyDict THEN original_data ELSE d

convert_pydantic_errors(errs, original_data) ==
    LET acc == ConvertLoop(errs, [errors |-> EmptyDict, failed_fields |-> {}])
        valid_data ==
            IF original_data # EmptyDict
            THEN Restrict(original_data,
                          {k \in DOMAIN original_data :
                              k \notin acc.failed_fields /\ k \in ModelFields})
            ELSE EmptyDict
    IN  BridgeError(acc.errors, original_data, valid_data)

\* ------------------------------------------------- bridge.py: validation

NoPartial == [kind |-> "none", names |-> {}]
PartialTrue == [kind |-> "true", names |-> {}]

\* python truthiness of the partial argument
Truthy(p) == p.kind = "true" \/ (p.kind \in {"list", "tuple", "set"} /\ p.names # {})

\* the marshmallow `missing` sentinel is filtered out before validation
CleanData(d) == Restrict(d, {k \in DOMAIN d : d[k] # "<marshmallow.missing>"})

\* the outcome of a validation call
Validated(vd, inst, calls) ==
    [raised |-> <<>>, validated_data |-> vd, instance |-> inst, calls |-> calls]
Failed(exc, calls) ==
    [raised |-> <<exc>>, validated_data |-> EmptyDict, instance |-> <<>>,
     calls |-> calls]

partial_fields_of(p) ==
    IF p.kind = "true" THEN ModelFields
    ELSE IF p.kind \in {"list", "tuple"} THEN p.names
    ELSE {}

\* the fields _validate_partial reports as missing
MissingRequired(d, p) ==
    {f \in ModelFields :
        /\ f \notin DOMAIN d
        /\ f \notin partial_fields_of(p)
        /\ ~HasDefault(f)
        /\ ~HasDefaultFactory(f)}

\* the candidate mapping: provided values plus defaults
validation_data_of(d) ==
    LET filled == {f \in ModelFields :
                      f \in DOMAIN d \/ HasDefault(f) \/ HasDefaultFactory(f)}
    IN  [f \in filled |->
            IF f \in DOMAIN d THEN d[f]
            ELSE IF HasDefault(f) THEN DefaultOf(f) ELSE FactoryOf(f)]

\* the loop over e.errors() in _validate_partial: acc = [errors, failed_fields]
RECURSIVE PartialLoop(_, _, _)
PartialLoop(errs, d, acc) ==
    IF errs = <<>> THEN acc
    ELSE LET error == Head(errs)
         IN  PartialLoop(Tail(errs), d,
                IF error.loc # <<>>
                THEN [errors |->
                         IF error.loc[1] \in DOMAIN d
                         THEN AppendMessage(acc.errors, error.loc[1],
                                            format_pydantic_error(error))
                         ELSE acc.errors,
                      failed_fields |-> acc.failed_fields \cup {error.loc[1]}]
                ELSE acc)

_validate_partial(d, p, original_data) ==
    LET missing == MissingRequired(d, p)
    IN  IF missing # {}
        THEN Failed(BridgeError(
                        [f \in missing |-> <<"Missing data for required field.">>],
                        OrData(original_data, d),
                        Restrict(d, {k \in DOMAIN d :
                                        k \notin missing /\ k \in ModelFields})),
                    {})
        ELSE LET vdata == validation_data_of(d)
                 errs == EngineErrors(vdata)
                 inst == InstanceOf(vdata)
                 acc == PartialLoop(errs, d,
                            [errors |-> EmptyDict, failed_fields |-> {}])
             IN  IF errs = <<>>
                 THEN Validated([f \in (DOMAIN d) \cap ModelFields |-> inst.fields[f]],
                                <<>>, {vdata})
                 ELSE IF acc.errors # EmptyDict
                 THEN Failed(BridgeError(acc.errors, OrData(original_data, d),
                                 Restrict(d, {k \in DOMAIN d :
                                                 k \notin acc.failed_fields
                                                 /\ k \in ModelFields})),
                             {vdata})
                 ELSE Validated(Restrict(d, ModelFields), <<>>, {vdata})

_validate_with_pydantic(d, p, original_data, skip_model_dump) ==
    LET clean_data == CleanData(d)
    IN  IF Truthy(p)
        THEN _validate_partial(clean_data, p, original_data)
        ELSE LET errs == EngineErrors(clean_data)
                 inst == InstanceOf(clean_data)
             IN  IF errs # <<>>
                 THEN Failed(convert_pydantic_errors(errs, OrData(original_data, d)),
                             {clean_data})
                 ELSE IF skip_model_dump
                 THEN Validated(EmptyDict, <<inst>>, {clean_data})
                 ELSE Validated(ModelDump(inst), <<inst>>, {clean_data})

\* ------------------------------------------- schema classes and user hooks

\* The schema classes of the model.  Plain is schema_for(Model); Hooked
\* declares marshmallow's native pre_load / validates("name") /
\* validates_schema / post_load; Legacy declares the bridge's own
\* validates("name") and validates_schema(skip_on_field_errors=False)
\* and a post_load hook.  Mixed declares a validator for "name" in both
\* registries, a native validates_schema(skip_on_field_errors=False) and
\* the bridge's own validates_schema with the default skip_on_field_errors.
SchemaClasses == {"Plain", "Hooked", "Legacy", "Mixed"}

\* A PydanticSchema subclass with neither Meta.model nor a generic parameter:
\* it declares name = fields.Str(required=True) and age = fields.Int() by hand
UnboundClasses == {"Unbound"}

\* A schema like Legacy whose handle_error override logs the error and
\* returns instead of raising it
LenientClasses == {"Lenient"}

\* self._model_class, as <<model>>, or <<>> when _get_model_class finds none
model_class_of(cls) == IF cls \in UnboundClasses THEN <<>> ELSE <<"User">>

\* the fields declared by hand in the body of a schema class
HandDeclared(cls) == IF cls \in UnboundClasses THEN {"name", "age"} ELSE {}

\* PydanticSchemaMeta.__new__: the fields it adds to attrs
SynthesizedFields(cls) ==
    IF model_class_of(cls) # <<>>
    THEN (ModelFields \cup ComputedFields) \ HandDeclared(cls)
    ELSE {}

\* handle_error(error, data, many=False) raises the error it is given
HandleErrorRaises(cls) == cls \notin LenientClasses

\* self._hooks["pre_load"], self._hooks["post_load"]
HasPreLoad(cls) == cls = "Hooked"
HasPostLoad(cls) == cls \in {"Hooked", "Legacy", "Lenient"}
\* self._hooks[VALIDATES]: the fields with a native field validator
NativeValidates(cls) == IF cls \in {"Hooked", "Mixed"} THEN {"name"} ELSE {}
\* self._hooks[VALIDATES_SCHEMA], with its skip_on_field_errors
NativeValidatesSchema(cls) == cls \in {"Hooked", "Mixed"}
NativeSkipOnFieldErrors(cls) == cls # "Mixed"
\* cls._field_validators_cache, cls._schema_validators_cache
FieldValidatorsCache(cls) == IF cls \in {"Legacy", "Mixed", "Lenient"} THEN {"name"} ELSE {}
SchemaValidatorsCache(cls) == cls \in {"Legacy", "Mixed", "Lenient"}
LegacySkipOnFieldErrors(cls) == cls = "Mixed"
\* Meta.unknown
MetaUnknown(cls) == RAISE

\* @pre_load rename_legacy_fields: the legacy key "nick" becomes "name"
PreLoadHook(d) ==
    IF "nick" \in DOMAIN d /\ "name" \notin DOMAIN d
    THEN Update(Restrict(d, (DOMAIN d) \ {"nick"}), "name" :> d["nick"])
    ELSE d

\* @validates("name"): the messages it raises for a value
NameValidator(value) ==
    IF value = "admin" THEN <<"Cannot use 'admin' as name">> ELSE <<>>

\* @validates_schema: the messages it raises for the validated mapping
SchemaValidator(d) ==
    IF "user_id" \in DOMAIN d /\ d["user_id"] = "v2"
    THEN <<"user_id v2 is reserved">> ELSE <<>>

\* @post_load: marks the result it was handed
PostLoadHook(r) == [r EXCEPT !.post_loaded = TRUE]

\* ErrorStore.store_error({key: msgs}): lists under one key are concatenated
StoreError(store, key, msgs) ==
    IF key \in DOMAIN store
    THEN [store EXCEPT ![key] = @ \o msgs]
    ELSE Update(store, key :> msgs)

\* mutant of _get_model_field_names_with_aliases: the aliases are left out
FieldNames_WithoutAliases == ModelFields

\* _get_model_field_names_with_aliases(model_class)
_get_model_field_names_with_aliases ==
    ModelFields \cup {AliasOf(f) : f \in {g \in ModelFields : AliasOf(g) # ""}}

\* ----------------------------------------------------------- the inputs

Keys == {"name", "nick", "user_id", "userId", "age", "full_name"}

ValuesOf(k) ==
    CASE k = "name"      -> {"v1", "raw", "bad", "admin"}
      [] k = "nick"      -> {"raw"}
      [] k = "user_id"   -> {"v1", "v2", "bad"}
      [] k = "userId"    -> {"v1", "bad"}
      [] k = "age"       -> {"v1", "bad"}
      [] k = "full_name" -> {"v1"}

AllValues == UNION {ValuesOf(k) : k \in Keys}

InputDicts ==
    {d \in UNION {[K -> AllValues] :
                    K \in {S \in SUBSET Keys : Cardinality(S) <= MaxKeys}} :
        \A k \in DOMAIN d : d[k] \in ValuesOf(k)}

\* the partial argument: None, True, or a list / tuple / set of field names
PartialArgs ==
    {NoPartial, PartialTrue}
    \cup {[kind |-> k, names |-> {"user_id"}] : k \in {"list", "set"}}
    \cup {[kind |-> "tuple", names |-> {"name", "age"}]}

\* the unknown argument: None or a policy
UnknownArgs == {<<>>, <<RAISE>>, <<EXCLUDE>>, <<INCLUDE>>}

\* ------------------------------------------------- bridge.py: _do_load

\* the schema instance is built with default arguments: UserSchema()
SelfPartial == NoPartial
SelfUnknownOverride == <<>>

\* mutant of NextStage: the unknown-field policy is applied before the
\* pre_load hooks
NextStage_UnknownFirst(stage) ==
    CASE stage = "idle"             -> "unknown"
      [] stage = "unknown"          -> "pre_load"
      [] stage = "pre_load"         -> "pydantic"
      [] stage = "pydantic"         -> "validates"
      [] stage = "validates"        -> "validates_schema"
      [] stage = "validates_schema" -> "finish"
      [] stage = "finish"           -> "post_load"
      [] stage = "post_load"        -> "returned"

\* the order of the steps of _do_load
NextStage(stage) ==
    CASE stage = "idle"             -> "pre_load"
      [] stage = "pre_load"         -> "unknown"
      [] stage = "unknown"          -> "pydantic"
      [] stage = "pydantic"         -> "validates"
      [] stage = "validates"        -> "validates_schema"
      [] stage = "validates_schema" -> "finish"
      [] stage = "finish"           -> "post_load"
      [] stage = "post_load"        -> "returned"

\* unkn_fields = set(processed_data.keys()) - model_field_names
UnknownFields(d) == (DOMAIN d) \ _get_model_field_names_with_aliases

\* errors = {field: ["Unknown field."] for field in unkn_fields}
UnknownErrors(unkn) == [f \in unkn |-> <<"Unknown field.">>]

\* processed_data with the unknown keys removed
ExcludeUnknown(d) == Restrict(d, _get_model_field_names_with_aliases)

\* the mapping _do_load passes to _validate_with_pydantic
EngineArgument(d) == d

\* mutant of IncludeUnknown: the unknown keys are not merged back
IncludeUnknown_Dropped(vd, d) == vd

\* validated_data with the unknown keys of processed_data added back
IncludeUnknown(vd, d) == Update(vd, Restrict(d, UnknownFields(d)))

has_validators(cls) ==
    \/ NativeValidates(cls) # {}
    \/ NativeValidatesSchema(cls)
    \/ FieldValidatorsCache(cls) # {}
    \/ SchemaValidatorsCache(cls)

needs_dict(cls, ri, unk) == ~ri \/ unk = INCLUDE \/ has_validators(cls)

\* the validator registered for a field: the messages it raises
FieldValidator(f, value) == IF f = "name" THEN NameValidator(value) ELSE <<>>

\* the registered validators, by registry and target
ValidatorNames == {"native:name", "legacy:name", "native:schema", "legacy:schema"}

NoValidatorCalls == [v \in ValidatorNames |-> 0]

\* one more invocation of each validator in vs
Invoked(calls, vs) ==
    [v \in ValidatorNames |-> IF v \in vs THEN calls[v] + 1 ELSE calls[v]]

\* marshmallow's _invoke_field_validators over the native hooks:
\* acc = [data, store, called]; a failing field is popped from data
RECURSIVE InvokeFieldValidators(_, _)
InvokeFieldValidators(fs, acc) ==
    IF fs = {} THEN acc
    ELSE LET f == CHOOSE x \in fs : TRUE
             msgs == IF f \in DOMAIN acc.data
                     THEN FieldValidator(f, acc.data[f]) ELSE <<>>
             data_key == IF AliasOf(f) # "" THEN AliasOf(f) ELSE f
             called == IF f \in DOMAIN acc.data
                       THEN acc.called \cup {"native:" \o f} ELSE acc.called
         IN  InvokeFieldValidators(fs \ {f},
                IF msgs = <<>> THEN [acc EXCEPT !.called = called]
                ELSE [data |-> Restrict(acc.data, (DOMAIN acc.data) \ {f}),
                      store |-> StoreError(acc.store, data_key, msgs),
                      called |-> called])

\* _run_field_validators: the validators it invokes
LegacyFieldValidatorsInvoked(cls, d) ==
    {"legacy:" \o f : f \in FieldValidatorsCache(cls) \cap DOMAIN d}

\* _run_field_validators: the errors mapping it raises (empty: no raise)
_run_field_validators(cls, d) ==
    LET failing == {f \in FieldValidatorsCache(cls) :
                       f \in DOMAIN d /\ FieldValidator(f, d[f]) # <<>>}
    IN  [f \in failing |-> FieldValidator(f, d[f])]

\* _invoke_schema_validators: is the native validates_schema hook invoked
NativeSchemaValidatorRuns(cls, has_field_errors) ==
    /\ NativeValidatesSchema(cls)
    /\ ~(NativeSkipOnFieldErrors(cls) /\ has_field_errors)

\* mutant of LegacySchemaValidatorRuns: skip_on_field_errors is ignored
LegacySchemaValidatorRuns_NoSkip(cls, has_field_errors) ==
    SchemaValidatorsCache(cls)

\* _run_schema_validators: is the cached validates_schema method invoked
LegacySchemaValidatorRuns(cls, has_field_errors) ==
    /\ SchemaValidatorsCache(cls)
    /\ ~(LegacySkipOnFieldErrors(cls) /\ has_field_errors)

\* _run_schema_validators: the errors mapping it raises (empty: no raise)
_run_schema_validators(cls, d, has_field_errors) ==
    IF /\ LegacySchemaValidatorRuns(cls, has_field_errors)
       /\ SchemaValidator(d) # <<>>
    THEN SCHEMA :> SchemaValidator(d)
    ELSE EmptyDict

\* for key, msgs in error.messages.items(): error_store.store_error({key: msgs})
RECURSIVE MergeInto(_, _)
MergeInto(store, messages) ==
    IF messages = EmptyDict THEN store
    ELSE LET k == CHOOSE x \in DOMAIN messages : TRUE
         IN  MergeInto(StoreError(store, k, messages[k]),
                       Restrict(messages, (DOMAIN messages) \ {k}))

\* step 6 for a partial load with return_instance: model_construct
ConstructPartial(vd) ==
    [kind |-> "instance",
     fields |-> [f \in ModelFields |->
                    IF f \in DOMAIN vd THEN vd[f]
                    ELSE IF HasDefault(f) THEN DefaultOf(f)
                    ELSE IF HasDefaultFactory(f) THEN FactoryOf(f)
                    ELSE "None"],
     fields_set |-> ModelFields \cap DOMAIN vd,
     post_loaded |-> FALSE]

DictResult(vd) ==
    [kind |-> "dict", fields |-> vd, fields_set |-> {}, post_loaded |-> FALSE]

InstanceResult(inst) ==
    [kind |-> "instance", fields |-> inst.fields, fields_set |-> inst.fields_set,
     post_loaded |-> FALSE]

\* step 6: the result before the post_load hooks
ShapeResult(ri, p, inst, vd) ==
    IF ri
    THEN IF ~Truthy(p)
         THEN IF inst # <<>> THEN InstanceResult(inst[1]) ELSE DictResult(vd)
         ELSE ConstructPartial(vd)
    ELSE DictResult(vd)

InitOf(schema_classes) ==
    /\ schema_cls \in schema_classes
    /\ pc = "idle"
    /\ data = EmptyDict
    /\ partial = NoPartial
    /\ unknown_setting = RAISE
    /\ return_instance = TRUE
    /\ processed_data = EmptyDict
    /\ engine_calls = {}
    /\ validated_data = EmptyDict
    /\ pydantic_instance = <<>>
    /\ error_store = EmptyDict
    /\ result = <<>>
    /\ raised = <<>>
    /\ call_order = <<>>
    /\ validator_calls = NoValidatorCalls
    /\ batch = <<>>
    /\ batch_index = 0
    /\ batch_results = <<>>
    /\ _schema_class_cache = EmptyDict
    /\ _processing_models = {}
    /\ stack = <<>>
    /\ classes = <<>>
    /\ requests = <<>>
    /\ thread_stack = [th \in Threads |-> <<>>]
    /\ dump_pc = "idle"
    /\ dump_obj = <<>>
    /\ dump_options = [include_computed |-> TRUE, exclude_unset |-> FALSE,
                       exclude_defaults |-> FALSE, exclude_none |-> FALSE]
    /\ dump_hook = "none"
    /\ field_filter = [only |-> <<>>, exclude |-> {}]
    /\ pre_dump_hook = "none"
    /\ pre_dump_input = <<>>
    /\ dump_dict = EmptyDict
    /\ fields_to_exclude = {}
    /\ computed_values = EmptyDict
    /\ dump_result = EmptyDict
    /\ hook_output = <<>>
    /\ dump_order = <<>>
    /\ _partial = SelfPartial
    /\ _unknown_override = SelfUnknownOverride
    /\ self_many = FALSE
    /\ meta_unknown = MetaUnknown(schema_cls)
    /\ load_args = <<>>
    /\ _context = EmptyDict
    /\ type_hint = <<>>
    /\ ma_field = <<>>
    /\ field_value = <<>>
    /\ dumped_value = <<>>
    /\ loaded_value = <<>>
    /\ engine_error = <<>>
    /\ formatted = <<>>
    /\ order_data = <<>>
    /\ full_messages = <<>>
    /\ partial_messages = <<>>

\* the state after UserSchema() of one of the schema classes bound to a model
Init == InitOf(SchemaClasses)

\* mutant of resolve_unknown: Meta.unknown is consulted before the value
\* given at construction
resolve_unknown_MetaFirst(u, override, meta) ==
    IF u # <<>> THEN u[1]
    ELSE IF meta # RAISE THEN meta
    ELSE IF override # <<>> THEN override[1]
    ELSE RAISE

\* `if many is None: many = self.many`
resolve_many(m, selfmany) == IF m # <<>> THEN m[1] ELSE selfmany

\* `if partial is None: partial = self._partial`
resolve_partial(p, selfpartial) == IF p.kind # "none" THEN p ELSE selfpartial

\* mutant of partial_after_resolve: the resolved value is stored on the instance
partial_after_resolve_Stored(p, selfpartial) == resolve_partial(p, selfpartial)

\* self._partial after `if partial is None: partial = self._partial`: the
\* assignment is to the local name, the attribute is what it was
partial_after_resolve(p, selfpartial) == selfpartial

\* `unknown if unknown is not None else self._unknown_override`, then
\* `getattr(self.Meta, "unknown", RAISE)`
resolve_unknown(u, override, meta) ==
    IF u # <<>> THEN u[1]
    ELSE IF override # <<>> THEN override[1]
    ELSE meta

\* load(data, partial=, unknown=, return_instance=): resolve the settings
LoadCall(d, p, u, ri) ==
    /\ pc = "idle"
    /\ data' = d
    /\ partial' = resolve_partial(p, _partial)
    /\ unknown_setting' = resolve_unknown(u, _unknown_override, meta_unknown)
    /\ return_instance' = ri
    /\ pc' = NextStage("idle")
    /\ UNCHANGED <<schema_cls, processed_data, engine_calls, validated_data,
                   pydantic_instance, error_store, result, raised, call_order>>
    /\ UNCHANGED <<validator_calls, rest_vars>>

\* step 1: the pre_load hooks, when there are any
PreLoadStep ==
    /\ pc = "pre_load"
    /\ IF HasPreLoad(schema_cls)
       THEN /\ processed_data' = PreLoadHook(data)
            /\ call_order' = Append(call_order, "pre_load")
       ELSE /\ processed_data' = data
            /\ UNCHANGED call_order
    /\ pc' = NextStage("pre_load")
    /\ UNCHANGED <<schema_cls, data, partial, unknown_setting, return_instance,
                   engine_calls, validated_data, pydantic_instance, error_store,
                   result, raised>>
    /\ UNCHANGED <<validator_calls, rest_vars>>

\* step 2: the unknown-field policy
UnknownStep ==
    /\ pc = "unknown"
    /\ call_order' = Append(call_order, "unknown")
    /\ LET unkn_fields == IF model_class_of(schema_cls) # <<>>
                          THEN UnknownFields(processed_data) ELSE {}
       IN  IF unkn_fields # {} /\ unknown_setting = RAISE
           THEN /\ raised' = <<MarshmallowError(UnknownErrors(unkn_fields))>>
                /\ pc' = "raised"
                /\ UNCHANGED processed_data
           ELSE /\ processed_data' =
                      IF unkn_fields # {} /\ unknown_setting = EXCLUDE
                      THEN ExcludeUnknown(processed_data)
                      ELSE processed_data
                /\ pc' = NextStage("unknown")
                /\ UNCHANGED raised
    /\ UNCHANGED <<schema_cls, data, partial, unknown_setting, return_instance,
                   engine_calls, validated_data, pydantic_instance, error_store,
                   result>>
    /\ UNCHANGED <<validator_calls, rest_vars>>

\* step 3: engine-A validation, after which the error is raised whether or
\* not handle_error raised it; without a model class the processed data are
\* taken as they are
PydanticStep ==
    /\ pc = "pydantic"
    /\ call_order' = IF model_class_of(schema_cls) # <<>>
                     THEN Append(call_order, "pydantic") ELSE call_order
    /\ LET out == IF model_class_of(schema_cls) # <<>>
                  THEN _validate_with_pydantic(
                      EngineArgument(processed_data), partial, data,
                      ~needs_dict(schema_cls, return_instance, unknown_setting))
                  ELSE Validated(processed_data, <<>>, {})
       IN  /\ engine_calls' = out.calls
           /\ IF out.raised # <<>>
              THEN /\ raised' = out.raised
                   /\ pc' = "raised"
                   /\ UNCHANGED <<validated_data, pydantic_instance>>
              ELSE /\ validated_data' =
                         IF unknown_setting = INCLUDE /\ model_class_of(schema_cls) # <<>>
                         THEN IncludeUnknown(out.validated_data, processed_data)
                         ELSE out.validated_data
                   /\ pydantic_instance' = out.instance
                   /\ pc' = NextStage("pydantic")
                   /\ UNCHANGED raised
    /\ UNCHANGED <<schema_cls, data, partial, unknown_setting, return_instance,
                   processed_data, error_store, result>>
    /\ UNCHANGED <<validator_calls, rest_vars>>

\* step 4: the field validators, native (4a) then the bridge's own (4b)
FieldValidatorsStep ==
    /\ pc = "validates"
    /\ call_order' = Append(call_order, "validates")
    /\ LET native == InvokeFieldValidators(NativeValidates(schema_cls),
                        [data |-> validated_data, store |-> error_store,
                         called |-> {}])
           legacy == _run_field_validators(schema_cls, native.data)
       IN  /\ validated_data' = native.data
           /\ error_store' = MergeInto(native.store, legacy)
           /\ validator_calls' =
                  Invoked(Invoked(validator_calls, native.called),
                          LegacyFieldValidatorsInvoked(schema_cls, native.data))
    /\ pc' = NextStage("validates")
    /\ UNCHANGED <<schema_cls, data, partial, unknown_setting, return_instance,
                   processed_data, engine_calls, pydantic_instance, result, raised>>
    /\ UNCHANGED rest_vars

\* step 5: the schema validators, native (5a) then the bridge's own (5b)
SchemaValidatorsStep ==
    /\ pc = "validates_schema"
    /\ call_order' = Append(call_order, "validates_schema")
    /\ LET has_field_errors == error_store # EmptyDict
           native == IF /\ NativeSchemaValidatorRuns(schema_cls, has_field_errors)
                        /\ SchemaValidator(validated_data) # <<>>
                     THEN StoreError(error_store, SCHEMA,
                                     SchemaValidator(validated_data))
                     ELSE error_store
           legacy == _run_schema_validators(schema_cls, validated_data,
                                            has_field_errors)
       IN  /\ error_store' = MergeInto(native, legacy)
           /\ validator_calls' =
                  Invoked(validator_calls,
                      {v \in {"native:schema"} :
                          NativeSchemaValidatorRuns(schema_cls, has_field_errors)}
                      \cup {v \in {"legacy:schema"} :
                          LegacySchemaValidatorRuns(schema_cls, has_field_errors)})
    /\ pc' = NextStage("validates_schema")
    /\ UNCHANGED <<schema_cls, data, partial, unknown_setting, return_instance,
                   processed_data, engine_calls, validated_data,
                   pydantic_instance, result, raised>>
    /\ UNCHANGED rest_vars

\* handle_error is given the combined validator errors; when there are none
\* or it returns, step 6: shape the result
FinishStep ==
    /\ pc = "finish"
    /\ IF error_store # EmptyDict /\ HandleErrorRaises(schema_cls)
       THEN /\ raised' = <<MarshmallowError(error_store)>>
            /\ pc' = "raised"
            /\ UNCHANGED result
       ELSE /\ result' = <<ShapeResult(
                              return_instance /\ model_class_of(schema_cls) # <<>>,
                              partial, pydantic_instance, validated_data)>>
            /\ pc' = NextStage("finish")
            /\ UNCHANGED raised
    /\ UNCHANGED <<schema_cls, data, partial, unknown_setting, return_instance,
                   processed_data, engine_calls, validated_data,
                   pydantic_instance, error_store, call_order>>
    /\ UNCHANGED <<validator_calls, rest_vars>>

\* step 7: the post_load hooks, when there are any
PostLoadStep ==
    /\ pc = "post_load"
    /\ IF HasPostLoad(schema_cls)
       THEN /\ result' = <<PostLoadHook(result[1])>>
            /\ call_order' = Append(call_order, "post_load")
       ELSE UNCHANGED <<result, call_order>>
    /\ pc' = NextStage("post_load")
    /\ UNCHANGED <<schema_cls, data, partial, unknown_setting, return_instance,
                   processed_data, engine_calls, validated_data,
                   pydantic_instance, error_store, raised>>
    /\ UNCHANGED <<validator_calls, rest_vars>>

Next ==
    \/ /\ pc = "idle"
       /\ \E d \in InputDicts, p \in PartialArgs, u \in UnknownArgs,
             ri \in BOOLEAN : LoadCall(d, p, u, ri)
    \/ PreLoadStep
    \/ UnknownStep
    \/ PydanticStep
    \/ FieldValidatorsStep
    \/ SchemaValidatorsStep
    \/ FinishStep
    \/ PostLoadStep

Spec == Init /\ [][Next]_vars

\* the same load pipeline on an instance of the schema class without a model
SpecUnbound == InitOf(UnboundClasses) /\ [][Next]_vars

\* the same load pipeline on an instance of the schema class whose
\* handle_error returns, next to the classes whose handle_error raises
SpecHandled == InitOf(LenientClasses \cup {"Legacy"}) /\ [][Next]_vars

\* ---------------------------------------------------------------- claims

\* ------------------------------------------ bridge.py: load(many=True)

\* Largest number of items in a batch.
MaxBatch == 2

\* the items of a batch: a valid one, one with an invalid name, one with two
\* invalid fields, one whose name the field validators reject
BatchItems ==
    { [name |-> "v1", user_id |-> "v1"],
      [name |-> "bad", user_id |-> "v1"],
      [name |-> "v1", user_id |-> "bad", age |-> "bad"],
      [name |-> "admin", user_id |-> "v1"] }

\* the inputs of load(..., many=True): lists of items, and inputs that are
\* no list (a single mapping, a string)
BatchInputs ==
    {[kind |-> "list", items |-> l] :
        l \in UNION {[1..n -> BatchItems] : n \in 0..MaxBatch}}
    \cup {[kind |-> "dict", items |-> <<d>>] : d \in BatchItems}
    \cup {[kind |-> "str", items |-> <<>>]}

\* mutant of IsList: a single mapping is taken for a batch of one
IsList_OrMapping(b) == b.kind \in {"list", "dict"}

\* isinstance(data, list)
IsList(b) == b.kind = "list"

\* load(data, many=True): `if not isinstance(data, list): raise`, else the
\* list comprehension starts
LoadManyCall(b, ri) ==
    /\ pc = "idle"
    /\ batch' = b
    /\ partial' = resolve_partial(NoPartial, _partial)
    /\ unknown_setting' = resolve_unknown(<<>>, _unknown_override, meta_unknown)
    /\ return_instance' = ri
    /\ IF ~IsList(b)
       THEN /\ raised' = <<MarshmallowError(SCHEMA :> <<"Expected a list.">>)>>
            /\ pc' = "raised"
            /\ UNCHANGED <<batch_index, batch_results>>
       ELSE /\ batch_index' = 1
            /\ batch_results' = <<>>
            /\ pc' = "many"
            /\ UNCHANGED raised
    /\ UNCHANGED <<schema_cls, data, processed_data, engine_calls,
                   validated_data, pydantic_instance, error_store, result,
                   call_order, validator_calls>>
    /\ UNCHANGED aux_vars

\* self._do_load(item, many=False, ...) for the next item of the batch
ItemCall ==
    /\ pc = "many"
    /\ batch_index <= Len(batch.items)
    /\ data' = batch.items[batch_index]
    /\ processed_data' = EmptyDict
    /\ engine_calls' = {}
    /\ validated_data' = EmptyDict
    /\ pydantic_instance' = <<>>
    /\ error_store' = EmptyDict
    /\ result' = <<>>
    /\ call_order' = <<>>
    /\ validator_calls' = NoValidatorCalls
    /\ pc' = NextStage("idle")
    /\ UNCHANGED <<schema_cls, partial, unknown_setting, return_instance,
                   raised, many_vars>>
    /\ UNCHANGED aux_vars

\* the item's _do_load returned: its result joins the list
ItemReturn ==
    /\ pc = "returned"
    /\ batch_index >= 1
    /\ batch_results' = Append(batch_results, result[1])
    /\ batch_index' = batch_index + 1
    /\ pc' = "many"
    /\ UNCHANGED <<schema_cls, data, partial, unknown_setting, return_instance,
                   processed_data, engine_calls, validated_data,
                   pydantic_instance, error_store, result, raised, call_order,
                   validator_calls, batch>>
    /\ UNCHANGED aux_vars

\* the list comprehension is exhausted: load returns the list
ManyReturn ==
    /\ pc = "many"
    /\ batch_index > Len(batch.items)
    /\ pc' = "returned_many"
    /\ UNCHANGED <<schema_cls, data, partial, unknown_setting, return_instance,
                   processed_data, engine_calls, validated_data,
                   pydantic_instance, error_store, result, raised, call_order,
                   validator_calls, many_vars>>
    /\ UNCHANGED aux_vars

NextMany ==
    \/ /\ pc = "idle"
       /\ \E b \in BatchInputs, ri \in BOOLEAN : LoadManyCall(b, ri)
    \/ ItemCall
    \/ ItemReturn
    \/ ManyReturn
    \/ PreLoadStep
    \/ UnknownStep
    \/ PydanticStep
    \/ FieldValidatorsStep
    \/ SchemaValidatorsStep
    \/ FinishStep
    \/ PostLoadStep

SpecMany == Init /\ [][NextMany]_vars

\* ---------------------------- bridge.py: from_model, type_mapping.py

\* Largest number of top-level from_model / schema_for calls.
MaxRequests == 2

\* Largest number of nested from_model calls in progress.
MaxDepth == 6

\* the models: User has no model-typed field, Node has a field typed as
\* Node itself, Parent and Child refer to each other
Models == {"User", "Node", "Parent", "Child"}

\* the model-typed fields of a model, in declaration order
Refs(m) ==
    CASE m = "User"   -> <<>>
      [] m = "Node"   -> <<"Node">>
      [] m = "Parent" -> <<"Child">>
      [] m = "Child"  -> <<"Parent">>

TupleValue(names) == [kind |-> "tuple", names |-> names]
ListValue(names) == [kind |-> "list", names |-> names]

\* **meta_options as passed: (name, value) pairs in keyword order (the
\* options name scalar fields only, so they do not change which model-typed
\* fields are converted)
MetaOptions ==
    { <<>>,
      << <<"exclude", TupleValue(<<"age">>)>> >>,
      << <<"fields", TupleValue(<<"name", "user_id">>)>>,
         <<"ordered", TupleValue(<<"yes">>)>> >>,
      << <<"ordered", TupleValue(<<"yes">>)>>,
         <<"fields", TupleValue(<<"name", "user_id">>)>> >>,
      << <<"fields", ListValue(<<"name", "user_id">>)>> >> }

\* position of an option name in Python's string order
OptionRank(k) ==
    CASE k = "exclude" -> 1
      [] k = "fields"  -> 2
      [] k = "ordered" -> 3

\* mutant of SortedItems: the pairs stay in keyword order
SortedItems_Unsorted(items) == items

\* sorted(meta_options.items()): the names are distinct, so the pairs are
\* ordered by name
RECURSIVE SortedItems(_)
SortedItems(items) ==
    IF items = <<>> THEN <<>>
    ELSE LET i == CHOOSE x \in DOMAIN items :
                     \A y \in DOMAIN items :
                         OptionRank(items[x][1]) <= OptionRank(items[y][1])
         IN  <<items[i]>> \o
             SortedItems(SubSeq(items, 1, i - 1) \o SubSeq(items, i + 1, Len(items)))

\* hash(cache_key) succeeds: no option value is a list
Hashable(items) == \A i \in DOMAIN items : items[i][2].kind # "list"

\* the cache key as <<key>>, or <<>> after the TypeError of an unhashable key
cache_key(model, items) ==
    IF Hashable(items) THEN << <<model, SortedItems(items)>> >> ELSE <<>>

\* cache_key in _schema_class_cache
CacheHit(cache, key) == key # <<>> /\ key[1] \in DOMAIN cache

\* mutant of InProcessing: the recursion detection never fires
InProcessing_Never(t, processing) == FALSE

\* type_hint in _processing_models
InProcessing(t, processing) == t \in processing

RawField == [kind |-> "Raw", cls |-> 0]
NestedField(c) == [kind |-> "Nested", cls |-> c]

\* the classes from_model is invoked on: PydanticSchema and two subclasses
FactoryClasses == {"PydanticSchema", "Sub", "Other"}

\* issubclass(a, b) for those classes
IsSubclass(a, b) == a = b \/ b = "PydanticSchema"

\* a from_model call on class cls that did not return from the cache
Frame(cls, model, items, key, nested) ==
    [on |-> cls, model |-> model, items |-> items, key |-> key, idx |-> 1,
     fields |-> <<>>, nested |-> nested]

Top == stack[Len(stack)]

\* the top frame with one more converted field
WithField(frame, f) ==
    [frame EXCEPT !.fields = Append(@, f), !.idx = @ + 1]

\* cls.from_model(model, **meta_options) called from user code
FromModelOn(cls, m, items) ==
    /\ stack = <<>>
    /\ Len(requests) < MaxRequests
    /\ LET key == cache_key(m, items)
       IN  IF CacheHit(_schema_class_cache, key)
           THEN /\ requests' = Append(requests,
                        [on |-> cls, model |-> m, items |-> items,
                         cls |-> _schema_class_cache[key[1]]])
                /\ UNCHANGED stack
           ELSE /\ stack' = <<Frame(cls, m, items, key, FALSE)>>
                /\ UNCHANGED requests
    /\ UNCHANGED <<_schema_class_cache, _processing_models, classes, thread_stack>>
    /\ UNCHANGED <<load_vars, many_vars, dump_vars, config_vars, types_vars,
                   errors_vars>>

\* PydanticSchema.from_model(model, **meta_options) / schema_for
FromModelCall(m, items) == FromModelOn("PydanticSchema", m, items)

\* convert_model_fields reaches the next model-typed field:
\* type_to_marshmallow_field(type_hint)
ConvertFieldStep ==
    /\ stack # <<>>
    /\ Top.idx <= Len(Refs(Top.model))
    /\ LET t == Refs(Top.model)[Top.idx]
           key == cache_key(t, <<>>)
       IN  IF InProcessing(t, _processing_models)
           THEN /\ stack' = [stack EXCEPT ![Len(stack)] = WithField(@, RawField)]
                /\ UNCHANGED _processing_models
           ELSE IF CacheHit(_schema_class_cache, key)
           THEN /\ stack' = [stack EXCEPT ![Len(stack)] =
                               WithField(@, NestedField(_schema_class_cache[key[1]]))]
                /\ _processing_models' = _processing_models \ {t}
           ELSE /\ Len(stack) < MaxDepth
                /\ stack' = Append(stack, Frame("PydanticSchema", t, <<>>, key, TRUE))
                /\ _processing_models' = _processing_models \cup {t}
    /\ UNCHANGED <<_schema_class_cache, classes, requests, thread_stack>>
    /\ UNCHANGED <<load_vars, many_vars, dump_vars, config_vars, types_vars,
                   errors_vars>>

\* every field is converted: type(name, (cls,), class_dict), the cache is
\* written, and the call returns to its caller
CreateClassStep ==
    /\ stack # <<>>
    /\ Top.idx > Len(Refs(Top.model))
    /\ LET c == Len(classes) + 1
       IN  /\ classes' = Append(classes,
                  [base |-> Top.on, model |-> Top.model, key |-> Top.key,
                   fields |-> Top.fields])
           /\ _schema_class_cache' =
                  IF Top.key # <<>>
                  THEN Update(_schema_class_cache, Top.key[1] :> c)
                  ELSE _schema_class_cache
           /\ IF Top.nested
              THEN /\ stack' = [SubSeq(stack, 1, Len(stack) - 1)
                                  EXCEPT ![Len(stack) - 1] =
                                      WithField(@, NestedField(c))]
                   /\ _processing_models' = _processing_models \ {Top.model}
                   /\ UNCHANGED requests
              ELSE /\ stack' = <<>>
                   /\ requests' = Append(requests,
                          [on |-> Top.on, model |-> Top.model,
                           items |-> Top.items, cls |-> c])
                   /\ UNCHANGED _processing_models
    /\ UNCHANGED thread_stack
    /\ UNCHANGED <<load_vars, many_vars, dump_vars, config_vars, types_vars,
                   errors_vars>>

NextFactory ==
    \/ /\ stack = <<>>
       /\ \E m \in Models, items \in MetaOptions : FromModelCall(m, items)
    \/ ConvertFieldStep
    \/ CreateClassStep

SpecFactory == Init /\ [][NextFactory]_vars

\* a from_model call in progress keeps running
FairSpecFactory ==
    SpecFactory /\ WF_vars(ConvertFieldStep) /\ WF_vars(CreateClassStep)

\* from_model invoked on PydanticSchema and on subclasses of it
NextSubclass ==
    \/ /\ stack = <<>>
       /\ \E cls \in FactoryClasses, m \in Models, items \in MetaOptions :
             FromModelOn(cls, m, items)
    \/ ConvertFieldStep
    \/ CreateClassStep

SpecSubclass == Init /\ [][NextSubclass]_vars

\* ------------------------------- from_model called from several threads

\* the innermost call of a thread
ThreadTop(th) == thread_stack[th][Len(thread_stack[th])]

\* the thread has made its top-level call
Started(th) ==
    thread_stack[th] # <<>> \/ \E i \in DOMAIN requests : requests[i].thread = th

\* PydanticSchema.from_model(model) called on thread th: the cache lookup
ThreadFromModelCall(th, m) ==
    /\ ~Started(th)
    /\ LET key == cache_key(m, <<>>)
       IN  IF CacheHit(_schema_class_cache, key)
           THEN /\ requests' = Append(requests,
                        [on |-> "PydanticSchema", model |-> m, items |-> <<>>,
                         cls |-> _schema_class_cache[key[1]], thread |-> th])
                /\ UNCHANGED thread_stack
           ELSE /\ thread_stack' = [thread_stack EXCEPT ![th] =
                        <<Frame("PydanticSchema", m, <<>>, key, FALSE)>>]
                /\ UNCHANGED requests
    /\ UNCHANGED <<_schema_class_cache, _processing_models, classes, stack>>
    /\ UNCHANGED <<load_vars, many_vars, dump_vars, config_vars, types_vars,
                   errors_vars>>

\* thread th converts its next model-typed field: the membership test on the
\* shared module-level set, then the nested from_model call
ThreadConvertFieldStep(th) ==
    /\ thread_stack[th] # <<>>
    /\ ThreadTop(th).idx <= Len(Refs(ThreadTop(th).model))
    /\ LET t == Refs(ThreadTop(th).model)[ThreadTop(th).idx]
           key == cache_key(t, <<>>)
           n == Len(thread_stack[th])
       IN  IF InProcessing(t, _processing_models)
           THEN /\ thread_stack' = [thread_stack EXCEPT ![th][n] = WithField(@, RawField)]
                /\ UNCHANGED _processing_models
           ELSE IF CacheHit(_schema_class_cache, key)
           THEN /\ thread_stack' = [thread_stack EXCEPT ![th][n] =
                        WithField(@, NestedField(_schema_class_cache[key[1]]))]
                /\ _processing_models' = _processing_models \ {t}
           ELSE /\ n < MaxDepth
                /\ thread_stack' = [thread_stack EXCEPT ![th] =
                        Append(@, Frame("PydanticSchema", t, <<>>, key, TRUE))]
                /\ _processing_models' = _processing_models \cup {t}
    /\ UNCHANGED <<_schema_class_cache, classes, requests, stack>>
    /\ UNCHANGED <<load_vars, many_vars, dump_vars, config_vars, types_vars,
                   errors_vars>>

\* thread th has converted every field of its innermost call: the class is
\* created, the cache entry is written and the call returns
ThreadCreateClassStep(th) ==
    /\ thread_stack[th] # <<>>
    /\ ThreadTop(th).idx > Len(Refs(ThreadTop(th).model))
    /\ LET c == Len(classes) + 1
           top == ThreadTop(th)
           n == Len(thread_stack[th])
       IN  /\ classes' = Append(classes,
                  [base |-> top.on, model |-> top.model, key |-> top.key,
                   fields |-> top.fields])
           /\ _schema_class_cache' =
                  IF top.key # <<>>
                  THEN Update(_schema_class_cache, top.key[1] :> c)
                  ELSE _schema_class_cache
           /\ IF top.nested
              THEN /\ thread_stack' = [thread_stack EXCEPT ![th] =
                          [SubSeq(@, 1, n - 1) EXCEPT ![n - 1] =
                              WithField(@, NestedField(c))]]
                   /\ _processing_models' = _processing_models \ {top.model}
                   /\ UNCHANGED requests
              ELSE /\ thread_stack' = [thread_stack EXCEPT ![th] = <<>>]
                   /\ requests' = Append(requests,
                          [on |-> top.on, model |-> top.model,
                           items |-> top.items, cls |-> c, thread |-> th])
                   /\ UNCHANGED _processing_models
    /\ UNCHANGED stack
    /\ UNCHANGED <<load_vars, many_vars, dump_vars, config_vars, types_vars,
                   errors_vars>>

\* the interpreter switches threads between the steps
NextThreads ==
    \/ \E th \in Threads, m \in Models : ThreadFromModelCall(th, m)
    \/ \E th \in Threads : ThreadConvertFieldStep(th)
    \/ \E th \in Threads : ThreadCreateClassStep(th)

SpecThreads == Init /\ [][NextThreads]_vars

\* ------------------------- type_mapping.py: type_to_marshmallow_field

\* a type annotation: the class, and get_origin / get_args of it ("" when
\* get_origin is None)
Hint(type, origin, args) == [type |-> type, origin |-> origin, args |-> args]
Class(t) == Hint(t, "", <<>>)
Generic(origin, args) == Hint(origin, origin, args)
Ellipsis == Class("...")
NoneType == Class("NoneType")

\* the scalar types: str, int, float, bool and the Pydantic network types
ScalarHints == {Class("str"), Class("int"), Class("float"), Class("bool"),
                Class("EmailStr"), Class("HttpUrl")}

\* the enums: Color.RED = "red", Flag.ON = "ON"
EnumHints == {Class("Color"), Class("Flag")}
EnumMember(t) == IF t.type = "Color" THEN "RED" ELSE "ON"
EnumMemberValue(t) == IF t.type = "Color" THEN "red" ELSE "ON"

\* issubclass(type_hint, BaseModel)
IsModel(t) == t.origin = "" /\ t.type \in Models

\* the annotations handed to the type mapper: scalars, enums, None, Literal,
\* a nested model, the bare builtins, typing.List / typing.Tuple without
\* arguments, unions and the parametrized collections
TypeHints ==
    ScalarHints \cup EnumHints
    \cup {NoneType, Hint("Literal", "Literal", <<Class("a")>>), Class("User"),
          Class("list"), Class("dict"), Class("set"), Class("tuple"),
          Hint("List", "list", <<>>),
          Hint("Tuple", "tuple", <<>>),
          Generic("Union", <<Class("int"), NoneType>>),
          Generic("Union", <<Class("int"), Class("str")>>),
          Generic("list", <<Class("int")>>),
          Generic("dict", <<Class("str"), Class("int")>>),
          Generic("set", <<Class("int")>>),
          Generic("frozenset", <<Class("str")>>),
          Generic("tuple", <<Class("int"), Class("str")>>),
          Generic("tuple", <<Class("int"), Class("int"), Class("int")>>),
          Generic("tuple", <<Class("int"), Ellipsis>>),
          Generic("tuple", <<Class("str"), Ellipsis>>)}

\* a Marshmallow field: its class, its inner fields and allow_none
Field(kind, inner, allow_none) ==
    [kind |-> kind, inner |-> inner, allow_none |-> allow_none]

Raw == Field("Raw", <<>>, FALSE)

\* Schema.TYPE_MAPPING.get(resolved, Raw); the bare list, set and tuple are
\* mapped to Raw by Marshmallow itself
TYPE_MAPPING(name) ==
    CASE name = "str"   -> "String"
      [] name = "int"   -> "Integer"
      [] name = "float" -> "Float"
      [] name = "bool"  -> "Boolean"
      [] OTHER          -> "Raw"

\* the Pydantic special types, recognised by module and name
SpecialField(name) ==
    CASE name = "EmailStr" -> <<"Email">>
      [] name = "HttpUrl"  -> <<"URL">>
      [] OTHER             -> <<>>

\* [type_to_marshmallow_field(arg) for arg in args if arg is not ...] is
\* written below with the recursion unfolded over the argument list
RECURSIVE type_to_marshmallow_field(_, _)
RECURSIVE MapArgs(_, _)

MapArgs(args, processing) ==
    IF args = <<>> THEN <<>>
    ELSE IF Head(args) = Ellipsis THEN MapArgs(Tail(args), processing)
    ELSE <<type_to_marshmallow_field(Head(args), processing)>>
            \o MapArgs(Tail(args), processing)

\* the tuple branch: `if args:` ... `if tuple_fields: return Tuple(...)`,
\* else `List(Raw())`
TupleField(args, tuple_fields) ==
    IF args # <<>> /\ tuple_fields # <<>>
    THEN Field("Tuple", tuple_fields, FALSE)
    ELSE Field("List", <<Raw>>, FALSE)

type_to_marshmallow_field(t, processing) ==
    IF t = NoneType THEN Field("Raw", <<>>, TRUE)
    ELSE IF t.origin = "Literal" THEN Raw
    ELSE IF t.origin = "Union" THEN
        LET non_none_args == SelectSeq(t.args, LAMBDA a : a # NoneType)
        IN  IF Len(non_none_args) = 1
            THEN [type_to_marshmallow_field(non_none_args[1], processing)
                    EXCEPT !.allow_none = TRUE]
            ELSE Field("Raw", <<>>, TRUE)
    ELSE IF t \in EnumHints THEN Field("Enum", <<>>, FALSE)
    ELSE IF IsModel(t) THEN
        IF InProcessing(t.type, processing) THEN Raw
        ELSE Field("Nested", <<>>, FALSE)
    ELSE IF t.origin = "list" THEN
        Field("List",
              <<IF t.args # <<>>
                THEN type_to_marshmallow_field(t.args[1], processing) ELSE Raw>>,
              FALSE)
    ELSE IF t.origin = "dict" THEN
        IF Len(t.args) >= 2
        THEN Field("Dict", <<type_to_marshmallow_field(t.args[1], processing),
                             type_to_marshmallow_field(t.args[2], processing)>>,
                   FALSE)
        ELSE Field("Dict", <<Field("String", <<>>, FALSE), Raw>>, FALSE)
    ELSE IF t.origin \in {"set", "frozenset"} THEN
        Field("List",
              <<IF t.args # <<>>
                THEN type_to_marshmallow_field(t.args[1], processing) ELSE Raw>>,
              FALSE)
    ELSE IF t.origin = "tuple" THEN
        TupleField(t.args, MapArgs(t.args, processing))
    ELSE IF SpecialField(t.type) # <<>> THEN
        Field(SpecialField(t.type)[1], <<>>, FALSE)
    ELSE Field(TYPE_MAPPING(IF t.origin # "" THEN t.origin ELSE t.type),
               <<>>, FALSE)

\* a Python value: its class, a scalar (or enum member, or model name) and
\* the elements of a collection
Value(py, v, items) == [py |-> py, v |-> v, items |-> items]
None == Value("NoneType", "None", <<>>)
Rejected == Value("ValidationError", "", <<>>)

\* the element lists of the collections
ItemLists(e) == {<<>>, <<e>>, <<e, e>>, <<e, e, e>>}

\* the values a field of the annotated type can hold on a model instance
ValuesOfHint(t) ==
    IF t = NoneType THEN {None}
    ELSE IF t.origin = "Literal" THEN {Value("str", "a", <<>>)}
    ELSE IF t.origin = "Union" THEN
        {Value("int", "1", <<>>)}
        \cup (IF NoneType \in SeqToSet(t.args) THEN {None}
              ELSE {Value("str", "a", <<>>)})
    ELSE IF t \in EnumHints THEN {Value("enum", EnumMember(t), <<>>)}
    ELSE IF IsModel(t) THEN {Value(t.type, "", <<"a">>)}
    ELSE IF t.origin = "tuple" /\ t.args # <<>>
                /\ Ellipsis \notin SeqToSet(t.args) THEN
        {Value("tuple", "", [i \in 1..Len(t.args) |->
                                IF t.args[i].type = "int" THEN "1" ELSE "a"])}
    ELSE IF t.origin = "tuple" \/ t.type = "tuple" THEN
        {Value("tuple", "", items) :
            items \in ItemLists(IF t.args # <<>> /\ t.args[1].type = "str"
                                THEN "a" ELSE "1")}
    ELSE IF t.origin = "list" \/ t.type = "list" THEN
        {Value("list", "", items) : items \in ItemLists("1")}
    ELSE IF t.origin \in {"set", "frozenset"} \/ t.type = "set" THEN
        {Value(t.type, "", items) :
            items \in {<<>>, <<IF t.type = "frozenset" THEN "a" ELSE "1">>}}
    ELSE IF t.origin = "dict" \/ t.type = "dict" THEN
        {Value("dict", "", <<>>), Value("dict", "", <<"k", "1">>)}
    ELSE IF t.type \in {"EmailStr", "HttpUrl"} THEN {Value("str", "a", <<>>)}
    ELSE {Value(t.type, "1", <<>>)}

\* obj.model_dump(): a nested model instance becomes a mapping
ModelDumpValue(value) ==
    IF value.py \in Models THEN Value("dict", value.py, value.items) ELSE value

MinOf(a, b) == IF a <= b THEN a ELSE b

\* Field._serialize of Marshmallow: List makes a list, Tuple pairs its
\* element fields with the elements (zip), Enum emits the member's name
\* (by_value is left False), the other fields pass the value through
SerializeValue(f, value) ==
    IF value = None THEN None
    ELSE IF f.kind = "List" THEN Value("list", "", value.items)
    ELSE IF f.kind = "Tuple" THEN
        Value("tuple", "", SubSeq(value.items, 1,
                                  MinOf(Len(f.inner), Len(value.items))))
    ELSE IF f.kind = "Enum" THEN Value("str", value.v, <<>>)
    ELSE value

\* the engine validates a value against the annotation (lax mode)
RECURSIVE ValidateValue(_, _)
ValidateValue(t, value) ==
    IF t = NoneType THEN IF value = None THEN value ELSE Rejected
    ELSE IF t.origin = "Union" THEN
        LET ok == {i \in 1..Len(t.args) :
                      ValidateValue(t.args[i], value) # Rejected}
        IN  IF ok = {} THEN Rejected
            ELSE ValidateValue(t.args[CHOOSE i \in ok : \A j \in ok : i <= j], value)
    ELSE IF value = None THEN Rejected
    ELSE IF t.origin = "Literal" THEN
        IF value = Value("str", "a", <<>>) THEN value ELSE Rejected
    ELSE IF t \in EnumHints THEN
        IF value.py = "enum" THEN value
        ELSE IF value.py = "str" /\ value.v = EnumMemberValue(t)
        THEN Value("enum", EnumMember(t), <<>>)
        ELSE Rejected
    ELSE IF IsModel(t) THEN
        IF value.py = t.type THEN value
        ELSE IF value.py = "dict" /\ value.v = t.type
        THEN Value(t.type, "", value.items)
        ELSE Rejected
    ELSE IF t.origin = "tuple" \/ t.type = "tuple" THEN
        IF value.py \notin {"list", "tuple", "set", "frozenset"} THEN Rejected
        ELSE IF t.args # <<>> /\ Ellipsis \notin SeqToSet(t.args)
                /\ Len(value.items) # Len(t.args) THEN Rejected
        ELSE Value("tuple", "", value.items)
    ELSE IF t.origin \in {"list", "set", "frozenset"}
                \/ t.type \in {"list", "set"} THEN
        IF value.py \in {"list", "tuple", "set", "frozenset"}
        THEN Value(IF t.origin # "" THEN t.origin ELSE t.type, "", value.items)
        ELSE Rejected
    ELSE IF t.origin = "dict" \/ t.type = "dict" THEN
        IF value.py = "dict" THEN value ELSE Rejected
    ELSE IF t.type \in {"EmailStr", "HttpUrl"} THEN
        IF value.py = "str" THEN value ELSE Rejected
    ELSE IF value.py = t.type THEN value ELSE Rejected

\* a field of the model is converted: type_to_marshmallow_field(type_hint)
MapTypeCall(t) ==
    /\ type_hint = <<>>
    /\ type_hint' = <<t>>
    /\ ma_field' = <<type_to_marshmallow_field(t, _processing_models)>>
    /\ UNCHANGED <<field_value, dumped_value, loaded_value>>
    /\ UNCHANGED <<load_vars, many_vars, factory_vars, dump_vars, config_vars,
                   errors_vars>>

\* dump of an instance holding the value: model_dump, then the field
\* serializes it
DumpFieldStep(value) ==
    /\ ma_field # <<>>
    /\ field_value = <<>>
    /\ field_value' = <<value>>
    /\ dumped_value' = <<SerializeValue(ma_field[1], ModelDumpValue(value))>>
    /\ UNCHANGED <<type_hint, ma_field, loaded_value>>
    /\ UNCHANGED <<load_vars, many_vars, factory_vars, dump_vars, config_vars,
                   errors_vars>>

\* load of the dumped mapping: the engine validates the dumped value
LoadFieldStep ==
    /\ dumped_value # <<>>
    /\ loaded_value = <<>>
    /\ loaded_value' = <<ValidateValue(type_hint[1], dumped_value[1])>>
    /\ UNCHANGED <<type_hint, ma_field, field_value, dumped_value>>
    /\ UNCHANGED <<load_vars, many_vars, factory_vars, dump_vars, config_vars,
                   errors_vars>>

NextTypes ==
    \/ \E t \in TypeHints : MapTypeCall(t)
    \/ /\ ma_field # <<>>
       /\ \E value \in ValuesOfHint(type_hint[1]) : DumpFieldStep(value)
    \/ LoadFieldStep

SpecTypes == Init /\ [][NextTypes]_vars

\* ------------------------------ errors.py: format_pydantic_error alone

ErrorTypes == {"string_too_short", "greater_than_equal", "missing",
               "int_parsing", "model_type"}

\* the places of the Product model an engine error can be located at: the
\* loc the engine reports, and the model and field the error occurred in
ErrorSites ==
    {[loc |-> <<"name">>, model |-> "Product", field |-> "name"],
     [loc |-> <<"quantity">>, model |-> "Product", field |-> "quantity"],
     [loc |-> <<"SKU">>, model |-> "Product", field |-> "sku"],
     [loc |-> <<"sku">>, model |-> "Product", field |-> "sku"],
     [loc |-> <<"address">>, model |-> "Product", field |-> "address"],
     [loc |-> <<"address", "zip">>, model |-> "Address", field |-> "zip"],
     [loc |-> <<"address", "city">>, model |-> "Address", field |-> "city"]}

\* ErrorDetails of the engine, with the site the error belongs to
EngineErrorsOfProduct ==
    {[loc |-> site.loc, type |-> t, msg |-> "engine message", site |-> site] :
        site \in ErrorSites, t \in ErrorTypes}

\* convert_pydantic_errors: msg = format_pydantic_error(error, model_class)
FormatErrorCall(error) ==
    /\ engine_error = <<>>
    /\ engine_error' = <<error>>
    /\ formatted' = <<format_pydantic_error_of(error, "Product")>>
    /\ UNCHANGED <<order_data, full_messages, partial_messages>>
    /\ UNCHANGED <<load_vars, many_vars, factory_vars, dump_vars, config_vars,
                   types_vars>>

NextErrors == \E error \in EngineErrorsOfProduct : FormatErrorCall(error)

SpecErrors == Init /\ [][NextErrors]_vars

\* ------------------------- errors of nested fields, partial and full load

\* The Order model: customer is a string, address a nested Address model
\* with zip_code and city, items a list of Item models with a name; no field
\* has a default, an alias or a message table.
OrderFields == <<"customer", "address", "items">>

\* the values a key of the input can hold
OrderValuesOf(f) ==
    CASE f = "customer" -> {"v1", "raw", "bad"}
      [] f = "address"  -> {"ok", "bad_zip", "bad_zip_and_city", "no_mapping"}
      [] f = "items"    -> {"ok", "bad_first", "bad_second", "bad_both"}

OrderInputs ==
    {d \in UNION {[K -> UNION {OrderValuesOf(f) : f \in SeqToSet(OrderFields)}] :
                     K \in SUBSET SeqToSet(OrderFields)} :
        \A f \in DOMAIN d : d[f] \in OrderValuesOf(f)}

EngineError(loc, type, msg) == [loc |-> loc, type |-> type, msg |-> msg]

\* the engine's errors for one field of the Order model; a collection index
\* of the loc is written as the string str() makes of it
OrderFieldErrors(f, d) ==
    IF f \notin DOMAIN d
    THEN <<EngineError(<<f>>, "missing", "Field required")>>
    ELSE LET short(loc) == EngineError(loc, "string_too_short",
                                       "String should have at least 1 character")
         IN  CASE d[f] = "bad" -> <<short(<<f>>)>>
               [] d[f] = "bad_zip" -> <<short(<<f, "zip_code">>)>>
               [] d[f] = "bad_zip_and_city" ->
                     <<short(<<f, "zip_code">>), short(<<f, "city">>)>>
               [] d[f] = "no_mapping" ->
                     <<EngineError(<<f>>, "model_type",
                                   "Input should be a valid dictionary")>>
               [] d[f] = "bad_first" -> <<short(<<f, "0", "name">>)>>
               [] d[f] = "bad_second" -> <<short(<<f, "1", "name">>)>>
               [] d[f] = "bad_both" ->
                     <<short(<<f, "0", "name">>), short(<<f, "1", "name">>)>>
               [] OTHER -> <<>>

\* PydanticValidationError.errors() of Order.model_validate(d)
OrderErrors(d) ==
    OrderFieldErrors("customer", d) \o OrderFieldErrors("address", d)
        \o OrderFieldErrors("items", d)

\* load(d) of the Order schema: the messages convert_pydantic_errors builds
\* (empty when the load succeeds)
FullLoadCall(d) ==
    /\ order_data = <<>>
    /\ order_data' = <<d>>
    /\ full_messages' =
           <<ConvertLoop(OrderErrors(d),
                         [errors |-> EmptyDict, failed_fields |-> {}]).errors>>
    /\ UNCHANGED <<engine_error, formatted, partial_messages>>
    /\ UNCHANGED <<load_vars, many_vars, factory_vars, dump_vars, config_vars,
                   types_vars>>

\* load(d, partial=True) of the same input: no field has a default, so the
\* candidate mapping is d and the engine reports the same errors, which the
\* loop of _validate_partial filters and keys
PartialLoadCall ==
    /\ order_data # <<>>
    /\ partial_messages = <<>>
    /\ partial_messages' =
           <<PartialLoop(OrderErrors(order_data[1]), order_data[1],
                         [errors |-> EmptyDict, failed_fields |-> {}]).errors>>
    /\ UNCHANGED <<engine_error, formatted, order_data, full_messages>>
    /\ UNCHANGED <<load_vars, many_vars, factory_vars, dump_vars, config_vars,
                   types_vars>>

NextNestedErrors ==
    \/ \E d \in OrderInputs : FullLoadCall(d)
    \/ PartialLoadCall

SpecNestedErrors == Init /\ [][NextNestedErrors]_vars

\* ------------------- bridge.py: __init__ options and their resolution

\* no field filter on the schema
NoFilter == [only |-> <<>>, exclude |-> {}]

\* the field filters of a schema: `only=` / `exclude=` of the instance, or
\* `fields=` / `exclude=` of from_model
FieldFilters ==
    {NoFilter,
     [only |-> <<{"name", "user_id"}>>, exclude |-> {}],
     [only |-> <<>>, exclude |-> {"age"}],
     [only |-> <<>>, exclude |-> {"full_name"}]}

\* the field passes the filter
Allowed(f, filter) ==
    /\ f \notin filter.exclude
    /\ filter.only # <<>> => f \in filter.only[1]

\* the schema's dump_fields: the declared fields that pass the filter
DumpFields(filter) ==
    {f \in ModelFields \cup ComputedFields : Allowed(f, filter)}

\* partial=False
PartialFalse == [kind |-> "false", names |-> {}]

\* the options a schema is constructed with
ConstructPartials == {NoPartial, PartialTrue}
ConstructUnknowns == {<<>>, <<EXCLUDE>>, <<INCLUDE>>}
MetaUnknowns == {RAISE, EXCLUDE}
ConstructFilters == {NoFilter, [only |-> <<{"name", "user_id"}>>, exclude |-> {}],
                     [only |-> <<>>, exclude |-> {"age"}]}

\* the arguments of load()
ManyArgs == {<<>>, <<TRUE>>, <<FALSE>>}
CallPartials == {NoPartial, PartialTrue, PartialFalse}
CallUnknowns == {<<>>, <<RAISE>>, <<INCLUDE>>}

\* the mappings loaded: complete, with an unknown key, without the name
ConfigInputs ==
    {[name |-> "admin", userId |-> "v1", age |-> "v1"],
     [name |-> "v1", userId |-> "v1", nick |-> "raw"],
     [userId |-> "v1", age |-> "v1"]}

\* Schema(only=, exclude=, partial=, unknown=, many=) of a class whose Meta
\* declares `unknown` or not
ConstructCall(filter, p, u, m, meta) ==
    /\ pc = "idle"
    /\ field_filter' = filter
    /\ _partial' = p
    /\ _unknown_override' = u
    /\ self_many' = m
    /\ meta_unknown' = meta
    /\ _context' = EmptyDict
    /\ pc' = "constructed"
    /\ UNCHANGED <<schema_cls, data, partial, unknown_setting, return_instance,
                   processed_data, engine_calls, validated_data,
                   pydantic_instance, error_store, result, raised, call_order,
                   validator_calls, many_vars, factory_vars, load_args,
                   types_vars, errors_vars>>
    /\ UNCHANGED <<dump_pc, dump_obj, dump_options, dump_hook, pre_dump_hook,
                   pre_dump_input, dump_dict, fields_to_exclude,
                   computed_values, dump_result, hook_output, dump_order>>

\* load(data, many=, partial=, unknown=, return_instance=) on the constructed
\* schema: the settings are resolved, then one mapping or a list of one
\* mapping is loaded
ConfiguredCall(method, d, m, p, u, ri) ==
    /\ pc = "constructed"
    /\ load_args' = <<[many |-> m, partial |-> p, unknown |-> u,
                       method |-> method]>>
    /\ partial' = resolve_partial(p, _partial)
    /\ _partial' = partial_after_resolve(p, _partial)
    /\ unknown_setting' = resolve_unknown(u, _unknown_override, meta_unknown)
    /\ return_instance' = ri
    /\ IF resolve_many(m, self_many)
       THEN /\ batch' = [kind |-> "list", items |-> <<d>>]
            /\ batch_index' = 1
            /\ batch_results' = <<>>
            /\ pc' = "many"
            /\ UNCHANGED data
       ELSE /\ data' = d
            /\ pc' = NextStage("idle")
            /\ UNCHANGED many_vars
    /\ UNCHANGED <<schema_cls, processed_data, engine_calls, validated_data,
                   pydantic_instance, error_store, result, raised, call_order,
                   validator_calls>>
    /\ UNCHANGED <<factory_vars, dump_vars, _unknown_override, self_many,
                   meta_unknown, _context, types_vars, errors_vars>>

ConfiguredLoadCall(d, m, p, u, ri) == ConfiguredCall("load", d, m, p, u, ri)

NextConfigured ==
    \/ /\ pc = "idle"
       /\ \E filter \in ConstructFilters, p \in ConstructPartials,
             u \in ConstructUnknowns, m \in BOOLEAN, meta \in MetaUnknowns :
                ConstructCall(filter, p, u, m, meta)
    \/ /\ pc = "constructed"
       /\ \E d \in ConfigInputs, m \in ManyArgs, p \in CallPartials,
             u \in CallUnknowns, ri \in BOOLEAN :
                ConfiguredLoadCall(d, m, p, u, ri)
    \/ PreLoadStep
    \/ UnknownStep
    \/ PydanticStep
    \/ FieldValidatorsStep
    \/ SchemaValidatorsStep
    \/ FinishStep
    \/ PostLoadStep
    \/ ItemCall
    \/ ItemReturn
    \/ ManyReturn

SpecConfigured == Init /\ [][NextConfigured]_vars

\* the values given to the context setter
Contexts == {EmptyDict, "user" :> "v1"}

\* schema.context = value
ContextSetter(value) ==
    /\ pc = "constructed"
    /\ _context # value
    /\ _context' = value
    /\ UNCHANGED <<load_vars, many_vars, factory_vars, dump_vars, types_vars,
                   errors_vars>>
    /\ UNCHANGED <<_partial, _unknown_override, self_many, meta_unknown, load_args>>

\* ------------------------------------- bridge.py: dump, _dump_single

\* the model instances passed to dump; "None" is Python's None.  An instance
\* built by a partial load holds None for an omitted required field and does
\* not count that field as set.
DumpObjects ==
    {[fields |-> [name |-> n, user_id |-> u, age |-> a],
      fields_set |-> {"name"} \cup (IF u = "None" THEN {} ELSE {"user_id"}) \cup fs] :
        n \in {"v1", "v2"}, u \in {"v1", "None"}, a \in {"v0", "v1", "None"},
        fs \in {{}, {"age"}}}

DumpOptions ==
    [include_computed : BOOLEAN, exclude_unset : BOOLEAN,
     exclude_defaults : BOOLEAN, exclude_none : BOOLEAN]

\* the post_dump hook of the schema class: none, one that removes a regular
\* field, one that removes the computed field, one that changes the computed
\* field, one that adds a key
DumpHooks == {"none", "remove_age", "remove_computed", "change_computed", "add_links"}

\* the pre_dump hook of the schema class: none, or one that blanks the age
PreDumpHooks == {"none", "clear_age"}

\* @pre_dump: the object the hook returns for the mapping it is given
PreDumpHook(hook, d) ==
    IF hook = "clear_age" THEN [d EXCEPT !["age"] = "None"] ELSE d

\* @post_dump: the mapping the hook returns
PostDumpHook(hook, d) ==
    CASE hook = "remove_age"      -> Restrict(d, (DOMAIN d) \ {"age"})
      [] hook = "remove_computed" -> Restrict(d, (DOMAIN d) \ {"full_name"})
      [] hook = "change_computed" ->
            IF "full_name" \in DOMAIN d
            THEN [d EXCEPT !["full_name"] = "hooked"] ELSE d
      [] hook = "add_links"       -> Update(d, "_links" :> "self")
      [] OTHER                    -> d

\* the key marshmallow serializes a field under: its data_key, else its name
DataKey(f) == IF f \in ModelFields /\ AliasOf(f) # "" THEN AliasOf(f) ELSE f

\* marshmallow's Schema._serialize of the dumped mapping: every declared
\* field (regular and computed) the mapping has, under its data key
Serialize(d) ==
    [k \in {DataKey(f) : f \in DOMAIN d} |->
        d[CHOOSE f \in DOMAIN d : DataKey(f) = k]]

\* _dump_single: the fields the exclusion options name
FieldsToExclude(obj, opts) ==
    {f \in ModelFields : opts.exclude_unset /\ f \notin obj.fields_set}
    \cup {f \in ModelFields :
            /\ opts.exclude_defaults
            /\ \/ HasDefault(f) /\ obj.fields[f] = DefaultOf(f)
               \/ ~HasDefault(f) /\ HasDefaultFactory(f)
                    /\ obj.fields[f] = FactoryOf(f)}
    \cup {f \in ModelFields : opts.exclude_none /\ obj.fields[f] = "None"}
    \cup {c \in ComputedFields :
            /\ opts.include_computed /\ opts.exclude_none
            /\ ComputedValue(obj.fields, c) = "None"}

\* _dump_single: computed_values
ComputedValues(obj, opts) ==
    IF opts.include_computed
    THEN [c \in {x \in ComputedFields :
                    ~(opts.exclude_none /\ ComputedValue(obj.fields, x) = "None")}
            |-> ComputedValue(obj.fields, c)]
    ELSE EmptyDict

\* the order of the steps of _dump_single
NextDumpStage(stage) ==
    CASE stage = "idle"           -> "prepare"
      [] stage = "prepare"        -> "pre_dump"
      [] stage = "pre_dump"       -> "serialize"
      [] stage = "serialize"      -> "post_dump"
      [] stage = "post_dump"      -> "exclude"
      [] stage = "exclude"        -> "merge_computed"
      [] stage = "merge_computed" -> "returned"

\* schema.dump(obj, include_computed=, exclude_unset=, ...)
DumpCall(obj, opts, filter, pre, hook) ==
    /\ dump_pc = "idle"
    /\ dump_obj' = <<obj>>
    /\ field_filter' = filter
    /\ dump_options' = opts
    /\ pre_dump_hook' = pre
    /\ dump_hook' = hook
    /\ dump_pc' = NextDumpStage("idle")
    /\ UNCHANGED <<pre_dump_input, dump_dict, fields_to_exclude, computed_values,
                   dump_result, hook_output, dump_order>>
    /\ UNCHANGED <<load_vars, many_vars, factory_vars, config_vars, types_vars,
                   errors_vars>>

\* the exclusion sets and the computed values are taken from the instance,
\* which is then converted with obj.model_dump(by_alias=False)
PrepareStep ==
    /\ dump_pc = "prepare"
    /\ fields_to_exclude' = FieldsToExclude(dump_obj[1], dump_options)
    /\ computed_values' = ComputedValues(dump_obj[1], dump_options)
    /\ dump_dict' = ModelDump(dump_obj[1])
    /\ dump_order' = Append(dump_order, "prepare")
    /\ dump_pc' = NextDumpStage("prepare")
    /\ UNCHANGED <<dump_obj, dump_options, dump_hook, field_filter, pre_dump_hook,
                   pre_dump_input, dump_result, hook_output>>
    /\ UNCHANGED <<load_vars, many_vars, factory_vars, config_vars, types_vars,
                   errors_vars>>

\* super().dump(obj, many=False): the pre_dump hooks, when there are any
PreDumpStep ==
    /\ dump_pc = "pre_dump"
    /\ IF pre_dump_hook # "none"
       THEN /\ pre_dump_input' = <<[kind |-> "dict", value |-> dump_dict]>>
            /\ dump_dict' = PreDumpHook(pre_dump_hook, dump_dict)
            /\ dump_order' = Append(dump_order, "pre_dump")
       ELSE UNCHANGED <<pre_dump_input, dump_dict, dump_order>>
    /\ dump_pc' = NextDumpStage("pre_dump")
    /\ UNCHANGED <<dump_obj, dump_options, dump_hook, field_filter, pre_dump_hook,
                   fields_to_exclude, computed_values, dump_result, hook_output>>
    /\ UNCHANGED <<load_vars, many_vars, factory_vars, config_vars, types_vars,
                   errors_vars>>

\* super().dump(obj, many=False): serialization of the declared fields
SerializeStep ==
    /\ dump_pc = "serialize"
    /\ dump_result' = Serialize(Restrict(dump_dict, DumpFields(field_filter)))
    /\ dump_order' = Append(dump_order, "serialize")
    /\ dump_pc' = NextDumpStage("serialize")
    /\ UNCHANGED <<dump_obj, dump_options, dump_hook, field_filter, pre_dump_hook,
                   pre_dump_input, dump_dict, fields_to_exclude,
                   computed_values, hook_output>>
    /\ UNCHANGED <<load_vars, many_vars, factory_vars, config_vars, types_vars,
                   errors_vars>>

\* super().dump(...): the post_dump hooks, when there are any
PostDumpStep ==
    /\ dump_pc = "post_dump"
    /\ IF dump_hook # "none"
       THEN /\ dump_result' = PostDumpHook(dump_hook, dump_result)
            /\ hook_output' = <<PostDumpHook(dump_hook, dump_result)>>
            /\ dump_order' = Append(dump_order, "post_dump")
       ELSE UNCHANGED <<dump_result, hook_output, dump_order>>
    /\ dump_pc' = NextDumpStage("post_dump")
    /\ UNCHANGED <<dump_obj, dump_options, dump_hook, field_filter, pre_dump_hook,
                   pre_dump_input, dump_dict, fields_to_exclude, computed_values>>
    /\ UNCHANGED <<load_vars, many_vars, factory_vars, config_vars, types_vars,
                   errors_vars>>

\* `if fields_to_exclude: result = {k: v ... if k not in fields_to_exclude}`
ExcludeStep ==
    /\ dump_pc = "exclude"
    /\ dump_result' = Restrict(dump_result, (DOMAIN dump_result) \ fields_to_exclude)
    /\ dump_order' = Append(dump_order, "exclude")
    /\ dump_pc' = NextDumpStage("exclude")
    /\ UNCHANGED <<dump_obj, dump_options, dump_hook, field_filter, pre_dump_hook,
                   pre_dump_input, dump_dict, fields_to_exclude,
                   computed_values, hook_output>>
    /\ UNCHANGED <<load_vars, many_vars, factory_vars, config_vars, types_vars,
                   errors_vars>>

\* `if computed_values: result.update(computed_values)`, then return result
MergeComputedStep ==
    /\ dump_pc = "merge_computed"
    /\ dump_result' = Update(dump_result, computed_values)
    /\ dump_order' = Append(dump_order, "merge_computed")
    /\ dump_pc' = NextDumpStage("merge_computed")
    /\ UNCHANGED <<dump_obj, dump_options, dump_hook, field_filter, pre_dump_hook,
                   pre_dump_input, dump_dict, fields_to_exclude,
                   computed_values, hook_output>>
    /\ UNCHANGED <<load_vars, many_vars, factory_vars, config_vars, types_vars,
                   errors_vars>>

NextDump ==
    \/ /\ dump_pc = "idle"
       /\ \E obj \in DumpObjects, opts \in DumpOptions, filter \in FieldFilters,
             pre \in PreDumpHooks, hook \in DumpHooks :
                DumpCall(obj, opts, filter, pre, hook)
    \/ PrepareStep
    \/ PreDumpStep
    \/ SerializeStep
    \/ PostDumpStep
    \/ ExcludeStep
    \/ MergeComputedStep

SpecDump == Init /\ [][NextDump]_vars

\* ------------------------- bridge.py: one instance, load / validate / dump

\* validate(data, many=, partial=): self.load(data, many=many, partial=partial)
ValidateCall(d, m, p) == ConfiguredCall("validate", d, m, p, <<>>, TRUE)

\* validate returns {} after the load, or the messages of the error it caught
ValidateReturn ==
    /\ pc \in {"returned", "returned_many", "raised"}
    /\ load_args # <<>>
    /\ load_args[1].method = "validate"
    /\ result' = <<DictResult(IF pc = "raised" THEN raised[1].messages
                              ELSE EmptyDict)>>
    /\ raised' = <<>>
    /\ pc' = "validated"
    /\ UNCHANGED <<schema_cls, data, partial, unknown_setting, return_instance,
                   processed_data, engine_calls, validated_data,
                   pydantic_instance, error_store, call_order, validator_calls>>
    /\ UNCHANGED rest_vars

\* the options of the dumps of the constructed schema
InstanceDumpOptions ==
    {opts \in DumpOptions : ~opts.exclude_unset /\ ~opts.exclude_defaults}

\* the objects dumped by the constructed schema
InstanceDumpObjects ==
    {obj \in DumpObjects :
        obj.fields["name"] = "v1" /\ obj.fields["age"] # "v0" /\ "age" \in obj.fields_set}

\* dump(obj, ...) on the constructed schema, whose class has no dump hooks
ConfiguredDumpCall(obj, opts) ==
    /\ pc = "constructed"
    /\ dump_pc = "idle"
    /\ dump_obj' = <<obj>>
    /\ dump_options' = opts
    /\ dump_pc' = NextDumpStage("idle")
    /\ pc' = "dump"
    /\ UNCHANGED <<field_filter, pre_dump_hook, dump_hook, pre_dump_input,
                   dump_dict, fields_to_exclude, computed_values, dump_result,
                   hook_output, dump_order>>
    /\ UNCHANGED <<schema_cls, data, partial, unknown_setting, return_instance,
                   processed_data, engine_calls, validated_data,
                   pydantic_instance, error_store, result, raised, call_order,
                   validator_calls>>
    /\ UNCHANGED <<many_vars, factory_vars, config_vars, types_vars, errors_vars>>

\* the call is over and its locals are gone; the instance is used again
CallReturn ==
    /\ \/ pc \in {"returned", "returned_many", "raised"} /\ load_args[1].method = "load"
       \/ pc = "validated"
       \/ pc = "dump" /\ dump_pc = "returned"
    /\ pc' = "constructed"
    /\ data' = EmptyDict
    /\ partial' = NoPartial
    /\ unknown_setting' = RAISE
    /\ return_instance' = TRUE
    /\ processed_data' = EmptyDict
    /\ engine_calls' = {}
    /\ validated_data' = EmptyDict
    /\ pydantic_instance' = <<>>
    /\ error_store' = EmptyDict
    /\ result' = <<>>
    /\ raised' = <<>>
    /\ call_order' = <<>>
    /\ validator_calls' = NoValidatorCalls
    /\ batch' = <<>>
    /\ batch_index' = 0
    /\ batch_results' = <<>>
    /\ load_args' = <<>>
    /\ dump_pc' = "idle"
    /\ dump_obj' = <<>>
    /\ pre_dump_input' = <<>>
    /\ dump_dict' = EmptyDict
    /\ fields_to_exclude' = {}
    /\ computed_values' = EmptyDict
    /\ dump_result' = EmptyDict
    /\ hook_output' = <<>>
    /\ dump_order' = <<>>
    /\ UNCHANGED <<schema_cls, dump_options, dump_hook, field_filter, pre_dump_hook>>
    /\ UNCHANGED <<_partial, _unknown_override, self_many, meta_unknown, _context>>
    /\ UNCHANGED <<factory_vars, types_vars, errors_vars>>

NextInstance ==
    \/ /\ pc = "idle"
       /\ \E filter \in {NoFilter, [only |-> <<>>, exclude |-> {"age"}]},
             p \in ConstructPartials, u \in {<<>>, <<EXCLUDE>>}, m \in BOOLEAN :
                ConstructCall(filter, p, u, m, RAISE)
    \/ \E value \in Contexts : ContextSetter(value)
    \/ /\ pc = "constructed"
       /\ \E d \in ConfigInputs, m \in ManyArgs, p \in CallPartials,
             u \in CallUnknowns : ConfiguredLoadCall(d, m, p, u, TRUE)
    \/ /\ pc = "constructed"
       /\ \E d \in ConfigInputs, m \in ManyArgs, p \in CallPartials :
             ValidateCall(d, m, p)
    \/ /\ pc = "constructed"
       /\ \E obj \in InstanceDumpObjects, opts \in InstanceDumpOptions :
             ConfiguredDumpCall(obj, opts)
    \/ PreLoadStep
    \/ UnknownStep
    \/ PydanticStep
    \/ FieldValidatorsStep
    \/ SchemaValidatorsStep
    \/ FinishStep
    \/ PostLoadStep
    \/ ItemCall
    \/ ItemReturn
    \/ ManyReturn
    \/ ValidateReturn
    \/ PrepareStep
    \/ PreDumpStep
    \/ SerializeStep
    \/ PostDumpStep
    \/ ExcludeStep
    \/ MergeComputedStep
    \/ CallReturn

SpecInstance == Init /\ [][NextInstance]_vars

\* the declared field names and wire aliases of the bound model
DeclaredKeys == {"name", "user_id", "userId", "age"}

\* the engine-validation step of the current call has run
PydanticRan == "pydantic" \in SeqToSet(call_order)

\* the load call is over
LoadDone == pc \in {"returned", "raised"}

\* C1: in a single-item load that succeeds the stages ran in the order
\* pre_load hooks, unknown-field policy, engine validation, field validators,
\* schema validators, post_load hooks (the hook stages only when the schema
\* registers such hooks), and the engine validated the pre_load hooks' output:
\* a legacy key the hook renames reaches the engine under its new name.
StageOrder ==
    <<"pre_load", "unknown", "pydantic", "validates", "validates_schema",
      "post_load">>

StageRegistered(s) ==
    /\ (s = "pre_load" => HasPreLoad(schema_cls))
    /\ (s = "post_load" => HasPostLoad(schema_cls))

C1_StagesInOrder ==
    pc = "returned" =>
        /\ call_order = SelectSeq(StageOrder, StageRegistered)
        /\ (HasPreLoad(schema_cls) /\ "nick" \in DOMAIN data
                /\ "name" \notin DOMAIN data)
            => \A c \in engine_calls :
                  "nick" \notin DOMAIN c /\ "name" \in DOMAIN c
                  /\ c["name"] = data["nick"]

C1_Witness ==
    /\ pc = "returned"
    /\ schema_cls = "Hooked"
    /\ unknown_setting = RAISE
    /\ "nick" \in DOMAIN data
    /\ Len(call_order) = 6

\* C4: under policy raise, once the unknown-field step is over: if the input
\* left by the pre_load hooks has keys outside the declared names and aliases,
\* the load has raised a mapping of exactly those keys, each to
\* ["Unknown field."], and the engine was not called; if it has none, the
\* load went on to engine validation.
C4_UnknownRaise ==
    (unknown_setting = RAISE /\ pc \notin {"idle", "pre_load", "unknown"}) =>
        LET unk == (DOMAIN processed_data) \ DeclaredKeys
        IN  IF unk # {}
            THEN /\ pc = "raised"
                 /\ raised[1].messages = [k \in unk |-> <<"Unknown field.">>]
                 /\ engine_calls = {}
                 /\ ~PydanticRan
            ELSE pc = "raised" => PydanticRan

C4_Witness ==
    /\ pc = "raised"
    /\ unknown_setting = RAISE
    /\ Cardinality((DOMAIN processed_data) \ DeclaredKeys) = 2
    /\ "userId" \in DOMAIN processed_data
    /\ engine_calls = {}

\* the value a load result holds under key or attribute k: <<value>> or <<>>
ResultValue(r, k) ==
    IF r.kind = "dict"
    THEN IF k \in DOMAIN r.fields THEN <<r.fields[k]>> ELSE <<>>
    ELSE IF k \in ModelFields THEN <<r.fields[k]>>
    ELSE IF k \in ComputedFields THEN <<ComputedValue(r.fields, k)>>
    ELSE <<>>

\* the engine errors of the call that the caller is answerable for: every
\* error of a full load; in a partial load the errors on a provided key and
\* the model-level errors (those on auto-filled fields are dropped by design)
ModelLevelFailure ==
    \E c \in engine_calls :
        \E i \in DOMAIN EngineErrors(c) : EngineErrors(c)[i].loc = <<>>

CallerErrors ==
    {e \in UNION {SeqToSet(EngineErrors(c)) : c \in engine_calls} :
        \/ ~Truthy(partial)
        \/ e.loc = <<>>
        \/ e.loc[1] \in DOMAIN processed_data}

ErrorKey(e) == IF e.loc = <<>> THEN "_schema" ELSE e.loc[1]

\* C2: every load call that fails validation raises one exception whose
\* mapping holds every failure of the call: each engine error the caller is
\* answerable for, and each message the field and schema validators raised.
C2_OneExceptionAllFailures ==
    LoadDone =>
        /\ (CallerErrors # {} \/ error_store # EmptyDict) => pc = "raised"
        /\ pc = "raised" =>
              /\ Len(raised) = 1
              /\ \A e \in CallerErrors :
                    /\ ErrorKey(e) \in DOMAIN raised[1].messages
                    /\ e.msg \in SeqToSet(raised[1].messages[ErrorKey(e)])
              /\ \A k \in DOMAIN error_store :
                    /\ k \in DOMAIN raised[1].messages
                    /\ SeqToSet(error_store[k])
                          \subseteq SeqToSet(raised[1].messages[k])

\* C3: a value supplied in the input under a computed field's name never
\* appears as that field's value in the load result.
C3_ComputedNeverLoaded ==
    pc = "returned" =>
        \A c \in ComputedFields \cap DOMAIN data :
            ResultValue(result[1], c) # <<data[c]>>

\* C5: under exclude and include, no mapping handed to engine validation has
\* a key outside the declared field names and aliases.
C5_EngineSeesDeclaredKeysOnly ==
    unknown_setting \in {EXCLUDE, INCLUDE} =>
        \A c \in engine_calls : DOMAIN c \subseteq DeclaredKeys

\* the regular fields a successful load accepts: every declared field in a
\* full load, the declared names present in the input in a partial load
AcceptedRegular ==
    IF Truthy(partial) THEN ModelFields \cap DOMAIN processed_data
    ELSE ModelFields

UnknownKeys == (DOMAIN processed_data) \ DeclaredKeys

IncludeDictLoad ==
    pc = "returned" /\ unknown_setting = INCLUDE /\ ~return_instance

MissingReported ==
    IF raised = <<>> THEN {}
    ELSE {f \in DOMAIN raised[1].messages :
             "Missing data for required field."
                 \in SeqToSet(raised[1].messages[f])}

\* C7: under partial load with a list, tuple or set P, a declared field
\* absent from the input is reported missing iff it is not in P and has no
\* default; with partial=True no field is reported missing.
C7_PartialMissing ==
    PydanticRan =>
        /\ partial.kind \in {"list", "tuple", "set"} =>
              MissingReported =
                  {f \in ModelFields :
                      /\ f \notin DOMAIN processed_data
                      /\ f \notin partial.names
                      /\ ~HasDefault(f) /\ ~HasDefaultFactory(f)}
        /\ partial.kind = "true" => MissingReported = {}

\* C8: a successful partial load with return_instance=False returns values
\* only for keys the caller provided, each declared field with its coerced
\* value.
C8_PartialResult ==
    (pc = "returned" /\ Truthy(partial) /\ ~return_instance) =>
        /\ DOMAIN result[1].fields \subseteq DOMAIN processed_data
        /\ \A f \in ModelFields \cap DOMAIN result[1].fields :
              result[1].fields[f] = Coerce(processed_data[f])

\* C9: a failure of the model-level validator is surfaced under "_schema" of
\* the raised error, in full and in partial loads.
C9_ModelLevelSurfaced ==
    (LoadDone /\ ModelLevelFailure) =>
        /\ pc = "raised"
        /\ "_schema" \in DOMAIN raised[1].messages

\* C10: the keys of a raised error's valid_data are disjoint from the keys of
\* its messages and are keys of the input passed to load.
C10_ValidData ==
    (raised # <<>> /\ raised[1].valid_data # <<>>) =>
        /\ (DOMAIN raised[1].valid_data[1]) \cap (DOMAIN raised[1].messages) = {}
        /\ DOMAIN raised[1].valid_data[1] \subseteq DOMAIN data

\* the load ended with the error the engine step raised
EngineFailed ==
    /\ pc = "raised"
    /\ engine_calls # {}
    /\ call_order[Len(call_order)] = "pydantic"

\* the top-level keys the engine reported an error at or below
ErrorTopKeys ==
    {e.loc[1] : e \in {x \in UNION {SeqToSet(EngineErrors(c)) : c \in engine_calls} :
                          x.loc # <<>>}}

\* the declared fields whose supplied value the engine rejected
RejectedFields ==
    {f \in ModelFields :
        \E c \in engine_calls :
            \E i \in DOMAIN EngineErrors(c) :
                /\ EngineErrors(c)[i].type = "invalid"
                /\ EngineErrors(c)[i].loc[1] \in {f, AliasOf(f)}}

\* C11: when engine validation fails, valid_data is exactly the input keys
\* that are declared field names and have no error at or below them, each
\* with its input value, and no field whose supplied value was rejected is in
\* valid_data, whether it came under its name or under its alias.
C11_ValidDataExact ==
    EngineFailed =>
        /\ raised[1].valid_data =
              <<Restrict(data, (ModelFields \cap DOMAIN data) \ ErrorTopKeys)>>
        /\ RejectedFields \cap DOMAIN raised[1].valid_data[1] = {}

\* C12: every load call that fails validation raises a BridgeValidationError
\* that carries the messages, the original input and valid_data.
C12_AlwaysBridgeError ==
    pc = "raised" =>
        /\ raised[1].cls = "BridgeValidationError"
        /\ raised[1].data = <<data>>
        /\ raised[1].valid_data # <<>>

\* the items of the batch that cannot be loaded, by position
InvalidItems ==
    {i \in DOMAIN batch.items :
        \/ EngineErrors(IF HasPreLoad(schema_cls)
                        THEN PreLoadHook(batch.items[i])
                        ELSE batch.items[i]) # <<>>
        \/ /\ has_validators(schema_cls)
           /\ batch.items[i]["name"] = "admin"}

\* the key of the error mapping for the item at (0-based) list position i - 1
IndexKey(i) == ToString(i - 1)

\* the error mapping holds errors of item i under its index
AttributedTo(messages, i) == IndexKey(i) \in DOMAIN messages

\* C13: a load with many=True of a list with invalid items raises one error
\* whose messages are organised by item index: each invalid item has its
\* errors under its index and no valid item has an entry.
C13_ManyErrorsByIndex ==
    (batch # <<>> /\ batch.kind = "list" /\ pc \in {"raised", "returned_many"}) =>
        /\ InvalidItems # {} => pc = "raised"
        /\ pc = "raised" =>
              /\ DOMAIN raised[1].messages
                    \subseteq {IndexKey(i) : i \in DOMAIN batch.items}
              /\ \A i \in DOMAIN batch.items :
                    i \in InvalidItems <=> AttributedTo(raised[1].messages, i)

\* C14: load with many=True and an input that is no list raises
\* {"_schema": ["Expected a list."]} at once: no hook, validator or engine
\* validation has run for any part of the input.
C14_ExpectedAList ==
    (batch # <<>> /\ batch.kind # "list") =>
        /\ pc = "raised"
        /\ raised[1].messages = (SCHEMA :> <<"Expected a list.">>)
        /\ call_order = <<>>
        /\ engine_calls = {}
        /\ validator_calls = NoValidatorCalls
        /\ batch_results = <<>>

C14_Witness ==
    /\ pc = "raised"
    /\ batch # <<>>
    /\ batch.kind = "dict"
    /\ schema_cls = "Hooked"
    /\ raised[1].messages = (SCHEMA :> <<"Expected a list.">>)

\* steps 4 and 5 of the load are over
FieldStepDone == "validates" \in SeqToSet(call_order)
SchemaStepDone == "validates_schema" \in SeqToSet(call_order)

\* a field-level validator has recorded an error
FieldErrorRecorded == \E k \in DOMAIN error_store : k # SCHEMA

\* C15: in a load where a field-level validator has recorded an error, a
\* schema-level validator with skip_on_field_errors=True (the default) is not
\* invoked and one with skip_on_field_errors=False is invoked exactly once.
C15_SkipOnFieldErrors ==
    (SchemaStepDone /\ FieldErrorRecorded) =>
        /\ NativeValidatesSchema(schema_cls) =>
              validator_calls["native:schema"] =
                  (IF NativeSkipOnFieldErrors(schema_cls) THEN 0 ELSE 1)
        /\ SchemaValidatorsCache(schema_cls) =>
              validator_calls["legacy:schema"] =
                  (IF LegacySkipOnFieldErrors(schema_cls) THEN 0 ELSE 1)

C15_Witness ==
    /\ pc = "raised"
    /\ schema_cls = "Mixed"
    /\ SchemaStepDone
    /\ "name" \in DOMAIN error_store
    /\ validator_calls["native:schema"] = 1
    /\ validator_calls["legacy:schema"] = 0
    /\ SCHEMA \in DOMAIN raised[1].messages

\* the number of validators registered for field "name"
RegisteredForName ==
    Cardinality({r \in {"native", "legacy"} :
        \/ r = "native" /\ "name" \in NativeValidates(schema_cls)
        \/ r = "legacy" /\ "name" \in FieldValidatorsCache(schema_cls)})

\* C16: field-level validation does not short-circuit: for a declared field
\* present in the validated data every validator registered for it, native
\* and legacy, runs, and every message raised is in the final error mapping
\* under that field.
C16_NoShortCircuit ==
    (FieldStepDone /\ "name" \in DOMAIN processed_data) =>
        /\ "name" \in NativeValidates(schema_cls) =>
              validator_calls["native:name"] = 1
        /\ "name" \in FieldValidatorsCache(schema_cls) =>
              validator_calls["legacy:name"] = 1
        /\ (RegisteredForName > 0 /\ processed_data["name"] = "admin") =>
              /\ "name" \in DOMAIN error_store
              /\ Len(error_store["name"]) = RegisteredForName
              /\ pc = "raised" =>
                    Len(raised[1].messages["name"]) = RegisteredForName

\* two requests name the same model with equal options
SameRequest(r1, r2) ==
    /\ r1.model = r2.model
    /\ SeqToSet(r1.items) = SeqToSet(r2.items)

\* C17 as stated: two factory calls with the same model and equal filter
\* options, in whatever order the options are given, return the identical
\* schema class.
C17_Original ==
    \A i, j \in DOMAIN requests :
        SameRequest(requests[i], requests[j]) => requests[i].cls = requests[j].cls

\* C17 amended: two factory calls with the same model and equal options
\* whose values are all hashable, in whatever order the options are given,
\* return the identical schema class; with an unhashable option value (a
\* list) the cache is skipped and each call returns a new class.
C17_SameClassForHashableOptions ==
    \A i, j \in DOMAIN requests :
        SameRequest(requests[i], requests[j]) =>
            IF Hashable(requests[i].items)
            THEN requests[i].cls = requests[j].cls
            ELSE i # j => requests[i].cls # requests[j].cls

C17_Witness ==
    /\ Len(requests) = 2
    /\ requests[1].model = requests[2].model
    /\ Len(requests[1].items) = 2
    /\ requests[1].items # requests[2].items
    /\ SeqToSet(requests[1].items) = SeqToSet(requests[2].items)
    /\ requests[1].cls = requests[2].cls

\* C18: at most one schema class is ever created per hashable (model,
\* options) key, also for models that refer to themselves or to each other:
\* the class first produced for a key is the one the cache keeps returning.
C18_OneClassPerKey ==
    /\ \A i, j \in DOMAIN classes :
          (classes[i].key # <<>> /\ classes[i].key = classes[j].key) => i = j
    /\ \A i \in DOMAIN requests :
          cache_key(requests[i].model, requests[i].items) # <<>> =>
              \A c \in DOMAIN classes :
                  classes[c].key = cache_key(requests[i].model, requests[i].items)
                      => requests[i].cls <= c

\* the class a completed request returned has a field for every model-typed
\* field of its model
Usable(r) == Len(classes[r.cls].fields) = Len(Refs(r.model))

\* C19: synthesizing a schema for a model with a field typed as the model
\* itself, or for two models that refer to each other, terminates with a
\* usable schema: every call in progress returns, and the nesting of the
\* calls stays below the number of models plus one.
C19_Terminates ==
    /\ [](Len(stack) <= Cardinality(Models) + 1)
    /\ [](\A i \in DOMAIN requests : Usable(requests[i]))
    /\ (stack # <<>>) ~> (stack = <<>> /\ _processing_models = {})

C19_Witness ==
    /\ stack = <<>>
    /\ Len(requests) = 2
    /\ requests[1].model = "Node"
    /\ requests[2].model = "Parent"
    /\ classes[requests[1].cls].fields[1].kind = "Nested"
    /\ classes[classes[requests[1].cls].fields[1].cls].fields = <<RawField>>
    /\ Usable(requests[2])

\* C20: the value dump returns is the output of the last post_dump hook:
\* the hooks run after the exclusion options are applied and the computed
\* fields are merged, so what a hook removes or changes, a computed field
\* included, is removed or changed in the returned mapping.
C20_PostDumpLast ==
    (dump_pc = "returned" /\ hook_output # <<>>) =>
        /\ dump_result = hook_output[1]
        /\ dump_order[Len(dump_order)] = "post_dump"

\* C21: in dump the pre_dump hooks run before the typed instance is inspected
\* or converted: a pre_dump hook receives the object the caller passed, and
\* the exclusion sets, the computed values and the mapping conversion come
\* after it.
C21_PreDumpFirst ==
    (dump_pc = "returned" /\ pre_dump_input # <<>>) =>
        /\ pre_dump_input[1].kind = "instance"
        /\ dump_order[1] = "pre_dump"

\* C22: dump(obj, include_computed=False) returns a mapping without any
\* computed-field key of the model.
C22_NoComputedKeys ==
    (dump_pc = "returned" /\ ~dump_options.include_computed
        /\ pre_dump_hook = "none" /\ dump_hook = "none") =>
        (DOMAIN dump_result) \cap ComputedFields = {}

\* the declared fields an exclusion option of the call asks to leave out
Qualifying(obj, opts) ==
    {f \in ModelFields :
        \/ opts.exclude_none /\ obj.fields[f] = "None"
        \/ opts.exclude_unset /\ f \notin obj.fields_set
        \/ opts.exclude_defaults /\ HasDefault(f) /\ obj.fields[f] = DefaultOf(f)}
    \cup {c \in ComputedFields :
            opts.exclude_none /\ ComputedValue(obj.fields, c) = "None"}

\* the field has an entry in the mapping, under its name or its wire alias
HasEntry(d, f) == f \in DOMAIN d \/ DataKey(f) \in DOMAIN d

\* C23: with an exclusion option no qualifying field has an entry in the
\* output (exclude_none: value None; exclude_unset: not explicitly set;
\* exclude_defaults: equal to the default), fields serialized under a wire
\* alias included.
C23_ExclusionOptions ==
    (dump_pc = "returned" /\ pre_dump_hook = "none" /\ dump_hook = "none") =>
        \A f \in Qualifying(dump_obj[1], dump_options) :
            ~HasEntry(dump_result, f)

\* C24: for a schema restricted by an only/fields whitelist or an exclude
\* blacklist the dump output has no key outside the whitelist and no key in
\* the blacklist, computed fields included.
C24_FilteredDump ==
    (dump_pc = "returned" /\ pre_dump_hook = "none" /\ dump_hook = "none") =>
        \A f \in ModelFields \cup ComputedFields :
            ~Allowed(f, field_filter) => ~HasEntry(dump_result, f)

\* the declared fields the schema's filter leaves out
FilteredOut == {f \in ModelFields : ~Allowed(f, field_filter)}

\* the input has a value for the field, under its name or its alias
InputFor(d, f) ==
    IF f \in DOMAIN d THEN <<d[f]>>
    ELSE IF AliasOf(f) # "" /\ AliasOf(f) \in DOMAIN d THEN <<d[AliasOf(f)]>>
    ELSE <<>>

\* C25: field filtering applies on load: with an only whitelist or an exclude
\* blacklist on the schema, an input value for a filtered-out field is
\* ignored or rejected, so the result of a load never carries a value taken
\* from the input for a filtered-out field.
C25_FilteredLoad ==
    (pc = "returned" /\ load_args # <<>>) =>
        \A f \in FilteredOut :
            (InputFor(data, f) # <<>> /\ f \in DOMAIN result[1].fields) =>
                result[1].fields[f] # Coerce(InputFor(data, f)[1])

\* the field types the round trip is claimed for: no write-only or
\* computed-only asymmetry is involved in any of them
RoundTripTypes == TypeHints

\* C26: for a model instance m, load(dump(m)) yields field values equal to
\* m's, for every scalar, collection (list, dict, set, tuple) and
\* nested-model field type the type mapper supports.
C26_RoundTrip ==
    (loaded_value # <<>> /\ type_hint[1] \in RoundTripTypes) =>
        loaded_value[1] = field_value[1]

\* the annotation is a tuple type: the bare tuple, typing.Tuple, or a
\* parametrized tuple
IsTupleHint(t) == t.origin = "tuple" \/ t = Class("tuple")

\* the element types of the tuple are known and finite
FixedArity(t) == t.args # <<>> /\ Ellipsis \notin SeqToSet(t.args)

\* C29: a tuple type with a known, finite list of element types maps to a
\* fixed-arity Tuple field with one element field per position; any other
\* tuple type (bare tuple, variable-length tuple) maps to a List of Raw
\* elements.
C29_TupleMapping ==
    (ma_field # <<>> /\ IsTupleHint(type_hint[1])) =>
        IF FixedArity(type_hint[1])
        THEN /\ ma_field[1].kind = "Tuple"
             /\ Len(ma_field[1].inner) = Len(type_hint[1].args)
        ELSE /\ ma_field[1].kind = "List"
             /\ ma_field[1].inner = <<Raw>>

\* the input has a value for the field, under a key the engine reads it from
Provided(f, d) == FoundKey(f, d) # <<>>

\* the placeholder an omitted field gets: its default, its default-factory
\* result, or None
Placeholder(f) ==
    IF HasDefault(f) THEN DefaultOf(f)
    ELSE IF HasDefaultFactory(f) THEN FactoryOf(f)
    ELSE "None"

\* an input that is valid but for what it omits: declared keys only, each
\* field given once with a value the engine accepts, no cross-field conflict,
\* and a required field without default left out
ValidButIncomplete(d) ==
    /\ DOMAIN d \subseteq DeclaredKeys
    /\ \A k \in DOMAIN d : d[k] # "bad"
    /\ ~({"user_id", "userId"} \subseteq DOMAIN d)
    /\ EngineErrors([f \in {g \in ModelFields : Provided(g, d)} |->
                        d[FoundKey(f, d)[1]]]
                    @@ [f \in {g \in ModelFields : ~Provided(g, d)} |-> "v2"])
         = <<>>
    /\ \E f \in ModelFields :
          ~Provided(f, d) /\ ~HasDefault(f) /\ ~HasDefaultFactory(f)

\* C27: with partial=True and return_instance=True, loading an input that
\* omits a required field without default succeeds and returns an instance
\* on which every declared field is readable: the provided fields hold their
\* validated values, the omitted ones their default, their default-factory
\* result, or None.
C27_PartialInstance ==
    (LoadDone /\ schema_cls = "Plain" /\ partial.kind = "true"
        /\ return_instance /\ ValidButIncomplete(data)) =>
        /\ pc = "returned"
        /\ result[1].kind = "instance"
        /\ \A f \in ModelFields :
              /\ f \in DOMAIN result[1].fields
              /\ result[1].fields[f] =
                    IF Provided(f, data)
                    THEN Coerce(data[FoundKey(f, data)[1]])
                    ELSE Placeholder(f)

\* what the caller of load() and the constructor asked for
ExpectedMany ==
    IF load_args[1].many # <<>> THEN load_args[1].many[1] ELSE self_many

ExpectedPartial ==
    IF load_args[1].partial.kind # "none" THEN load_args[1].partial
    ELSE _partial

ExpectedUnknown ==
    IF load_args[1].unknown # <<>> THEN load_args[1].unknown[1]
    ELSE IF _unknown_override # <<>> THEN _unknown_override[1]
    ELSE meta_unknown

\* the call was handled as a batch
LoadedAsMany == batch_index >= 1

TableOfError(error) == ErrorMessagesOf(error.site.model, error.site.field)

\* C30: for every engine error on a field whose declaration carries a custom
\* message table, the translated message is the table entry for the error's
\* type if present, else the table's "default" entry if present, else the
\* engine's own message; the table consulted is that of the field in which
\* the error occurred.
C30_CustomMessages ==
    (formatted # <<>> /\ TableOfError(engine_error[1]) # EmptyDict) =>
        formatted[1] =
            IF engine_error[1].type \in DOMAIN TableOfError(engine_error[1])
            THEN TableOfError(engine_error[1])[engine_error[1].type]
            ELSE IF "default" \in DOMAIN TableOfError(engine_error[1])
            THEN TableOfError(engine_error[1])["default"]
            ELSE engine_error[1].msg

\* ------------------------------------------------ schema without a model

\* the hand-declared fields declared with required=True
RequiredDeclared(cls) == HandDeclared(cls) \cap {"name"}

\* marshmallow's Field.deserialize of a hand-declared field: fields.Str keeps
\* a string, fields.Int converts the value
DeserializeDeclared(f, v) == IF f = "age" THEN Coerce(v) ELSE v

\* marshmallow's message for a value of the wrong type
InvalidMessage(f) ==
    IF f = "age" THEN "Not a valid integer." ELSE "Not a valid string."

\* marshmallow.Schema.load of a schema with the same hand-declared fields:
\* [messages, result], messages empty when the load succeeds
PlainSchemaLoad(cls, d, p, unk) ==
    LET declared == HandDeclared(cls)
        missing == {f \in RequiredDeclared(cls) :
                       /\ f \notin DOMAIN d
                       /\ p.kind # "true"
                       /\ f \notin p.names}
        invalid == {f \in declared \cap DOMAIN d : d[f] = "bad"}
        unkn == (DOMAIN d) \ declared
        rejected == IF unk = RAISE THEN unkn ELSE {}
        kept == (declared \cap DOMAIN d) \cup (IF unk = INCLUDE THEN unkn ELSE {})
    IN  [messages |->
            [f \in missing \cup invalid \cup rejected |->
                IF f \in missing THEN <<"Missing data for required field.">>
                ELSE IF f \in invalid THEN <<InvalidMessage(f)>>
                ELSE <<"Unknown field.">>],
         result |->
            [f \in kept |->
                IF f \in declared THEN DeserializeDeclared(f, d[f]) ELSE d[f]]]

\* C31: a schema class for which no model can be determined gets no
\* synthesized fields, and a load of it ends as the load of a plain schema
\* with the same hand-declared fields does: it raises the plain schema's
\* messages when that schema rejects the input, and returns the plain
\* schema's deserialized mapping when it accepts it.
C31_UnboundIsPlainSchema ==
    schema_cls \in UnboundClasses =>
        /\ SynthesizedFields(schema_cls) = {}
        /\ LoadDone =>
              LET plain == PlainSchemaLoad(schema_cls, data, partial, unknown_setting)
              IN  IF plain.messages # EmptyDict
                  THEN pc = "raised" /\ raised[1].messages = plain.messages
                  ELSE pc = "returned" /\ result[1].fields = plain.result

\* --------------------------------------------- the settings of an instance

\* the settings of the schema instance fixed by __init__
Settings == <<field_filter, _partial, _unknown_override, self_many>>

RawTree == [kind |-> "Raw"]

\* the field descriptors of schema class c, nested classes written out
RECURSIVE Unfold(_)
Unfold(c) ==
    [model |-> classes[c].model,
     fields |-> [i \in DOMAIN classes[c].fields |->
                    IF classes[c].fields[i].kind = "Raw" THEN RawTree
                    ELSE [kind |-> "Nested",
                          schema |-> Unfold(classes[c].fields[i].cls)]]]

\* the descriptors from_model produces for a model when nothing was
\* synthesized before: processing holds the models of the nested calls
RECURSIVE FreshSchema(_, _)
FreshSchema(m, processing) ==
    [model |-> m,
     fields |-> [i \in DOMAIN Refs(m) |->
                    IF Refs(m)[i] \in processing THEN RawTree
                    ELSE [kind |-> "Nested",
                          schema |-> FreshSchema(Refs(m)[i],
                                                 processing \cup {Refs(m)[i]})]]]

\* every raw field of the tree refers to a model on the path from the root
\* of the tree to it
RECURSIVE RawClosesCycle(_, _)
RawClosesCycle(tree, path) ==
    \A i \in DOMAIN tree.fields :
        IF tree.fields[i].kind = "Raw"
        THEN Refs(tree.model)[i] \in path \cup {tree.model}
        ELSE RawClosesCycle(tree.fields[i].schema, path \cup {tree.model})

\* C33: the class a factory call returns for a (model, options) key has the
\* field descriptors the factory gives that key when nothing was synthesized
\* before, whichever models were requested earlier and whichever model of a
\* cycle was requested first; and a raw field stands only where the field's
\* model is already on the path from the requested model to it.
C33_PureFunctionOfKey ==
    \A i \in DOMAIN requests :
        /\ Unfold(requests[i].cls) = FreshSchema(requests[i].model, {})
        /\ RawClosesCycle(Unfold(requests[i].cls), {})

\* C34: the class cls.from_model(M, **opts) returns is a subclass of cls,
\* whatever was asked of PydanticSchema or of another subclass before.
C34_SubclassOfCaller ==
    \A i \in DOMAIN requests :
        IsSubclass(classes[requests[i].cls].base, requests[i].on)

\* ------------------------------------------------ the factory and threads

\* C35: when two threads call the factory with the same model and options,
\* both calls return the identical schema class.
C35_SameClassAcrossThreads ==
    \A i, j \in DOMAIN requests :
        (requests[i].model = requests[j].model /\ requests[i].items = requests[j].items)
            => requests[i].cls = requests[j].cls

\* the model a thread's top-level call is for, as <<model>>, or <<>>
TopLevelModel(th) ==
    IF thread_stack[th] # <<>> THEN <<thread_stack[th][1].model>>
    ELSE IF \E i \in DOMAIN requests : requests[i].thread = th
    THEN <<requests[CHOOSE i \in DOMAIN requests : requests[i].thread = th].model>>
    ELSE <<>>

\* C40: while two threads synthesize different models, a model-typed field
\* of a call in progress is a raw field only if its model is the model of a
\* call in progress of the same thread, this call and the thread's
\* top-level call included.
C40_DegradedByOwnCycleOnly ==
    \A th \in Threads :
        (\A o \in Threads \ {th} : TopLevelModel(o) # TopLevelModel(th)) =>
            \A k \in DOMAIN thread_stack[th] :
                \A i \in DOMAIN thread_stack[th][k].fields :
                    thread_stack[th][k].fields[i] = RawField =>
                        Refs(thread_stack[th][k].model)[i] \in
                            {thread_stack[th][j].model : j \in 1..k}

\* ------------------------------------ error keys under a partial load

\* the engine's errors located in a field the input provides
ProvidedErrors(d) ==
    {i \in DOMAIN OrderErrors(d) : OrderErrors(d)[i].loc[1] \in DOMAIN d}

\* C36: under a partial load, every engine error inside a provided field,
\* nested models and collection items included, is reported under the
\* dotted-path key it has in the non-partial load of the same input, with
\* the same messages.
C36_SameKeysUnderPartial ==
    (order_data # <<>> /\ partial_messages # <<>>) =>
        \A i \in ProvidedErrors(order_data[1]) :
            LET path == build_error_path(OrderErrors(order_data[1])[i].loc)
            IN  /\ path \in DOMAIN partial_messages[1]
                /\ partial_messages[1][path] = full_messages[1][path]

\* ----------------------------------- handle_error that does not raise

\* the engine rejects the mapping the current call handed to it
EngineRejects ==
    /\ PydanticRan
    /\ IF Truthy(partial)
       THEN _validate_partial(CleanData(processed_data), partial, data).raised # <<>>
       ELSE EngineErrors(CleanData(processed_data)) # <<>>

\* C37: on a schema whose handle_error returns without raising, a load of
\* data that failed validation still ends by raising: when the engine
\* rejects the data, and when a field or schema validator recorded an error,
\* no result is built, no post_load hook runs and the call does not return.
C37_HandleErrorCannotSuppress ==
    (schema_cls \in LenientClasses /\ (EngineRejects \/ error_store # EmptyDict)) =>
        /\ result = <<>>
        /\ "post_load" \notin SeqToSet(call_order)
        /\ pc # "returned"

\* ------------------------------------- post_load hooks of a failed load

\* C38: when a top-level load raises a validation error, no post_load hook
\* was invoked during the call: not for the item that failed, and not for
\* the items of the batch loaded before it.
C38_NoPostLoadWhenRaised ==
    pc = "raised" =>
        /\ "post_load" \notin SeqToSet(call_order)
        /\ \A i \in DOMAIN batch_results : ~batch_results[i].post_loaded

\* ------------------------------------ partial load and the wire alias

\* the call is a partial load of the plain schema that reached the engine,
\* with user_id supplied under key k only
SuppliedUnder(k) ==
    /\ LoadDone /\ PydanticRan
    /\ schema_cls = "Plain"
    /\ k \in DOMAIN data
    /\ ({"user_id", "userId"} \ {k}) \cap DOMAIN data = {}

\* the raised error holds, under the field's name or alias, the bridge's or
\* the engine's message for a missing field
ReportedMissing(f) ==
    /\ raised # <<>>
    /\ \E key \in {f, AliasOf(f)} \cap DOMAIN raised[1].messages :
          {"Missing data for required field.", "Field required"}
              \cap SeqToSet(raised[1].messages[key]) # {}

\* the field is treated as provided: not reported missing, a bad value is
\* rejected, and a returned result holds the validated value
TreatedAsProvided(k) ==
    /\ ~ReportedMissing("user_id")
    /\ data[k] = "bad" => pc = "raised"
    /\ pc = "returned" => ResultValue(result[1], "user_id") = <<Coerce(data[k])>>

\* C39: under a partial load, a field supplied under its wire alias
\* (user_id as "userId") counts as provided: it is not reported missing, its
\* value is validated, and the validated value is in the result, as in a
\* non-partial load.
C39_AliasCountsAsProvided ==
    (SuppliedUnder("userId") /\ Truthy(partial)) => TreatedAsProvided("userId")

====
